---- MODULE Spec2Model ----
(***************************************************************************)
(* A model of the bitcask storage engine (srv/src/store): the data         *)
(* directory on disk (LOCK file, data segments, hint segments), the        *)
(* engine instances opened on it (segment table, active segment, key       *)
(* directory) and the wall clock that stamps the records.                  *)
(*                                                                         *)
(* A segment file is a sequence of chunks.  A chunk is the byte range one  *)
(* append put into the file: `rec` is the record whose first byte is the   *)
(* first byte of the chunk, `valid` is the number of bytes of that record  *)
(* the chunk holds and `len` is the length of the chunk.  Appends made by  *)
(* DataFile::write always produce whole records (valid = len = record      *)
(* size); copy_bytes_from copies the byte range an index entry names.      *)
(***************************************************************************)
EXTENDS Integers, Sequences, FiniteSets, TLC

\* ------------------------------------------------------------------ bounds
Engines == {"e1", "e2"}
Opener == {"e1"}
Keys == {"k1", "k2", "k3"}
Values == {"a", "b"}
Oversize == {<<"kbig", "a">>, <<"k3", "vbig">>, <<"kbig", "vbig">>}
Workers == {"w1", "w2"}
MaxSteps == 6
MaxRaceSteps == 6
MaxIterSteps == 5
MaxArcSteps == 10
MaxPutSteps == 3
MaxReopenSteps == 7
MaxCrashSteps == 6
MaxHeaderSteps == 1
MaxIdleSteps == 6
MaxTailSteps == 1
MaxTailRecords == 2
MaxStaleSteps == 7
MaxLiveCalls == 4
MaxJobs == 3
PoolSize == 2
MaxTs == 2
MaxLogFileSize == 20
MaxKeySize == 4
MaxValueSize == 3

\* ------------------------------------------------------- program constants
HEADER_SIZE == 16
REMOVE_TOMESTONE == "tomb"
None == "none"

\* length in bytes of a key or of a value
ByteLen(bytes) ==
  CASE bytes = "k1" -> 4
    [] bytes = "k2" -> 4
    [] bytes = "k3" -> 1
    [] bytes = "a" -> 1
    [] bytes = "b" -> 2
    [] bytes = REMOVE_TOMESTONE -> 3
    [] bytes = "kbig" -> MaxKeySize + 1
    [] bytes = "vbig" -> MaxValueSize + 1
    [] OTHER -> 0

VARIABLES lockFile, dataDisk, hintDisk, pc, data_files, active, wpos, keydir,
          clock, last, written, touched, compacted, lastView, steps,
          rwlock, job, clones, atOpen, pool

vars == <<lockFile, dataDisk, hintDisk, pc, data_files, active, wpos, keydir,
          clock, last, written, touched, compacted, lastView, steps,
          rwlock, job, clones, atOpen, pool>>

\* ------------------------------------------------------------ format.rs
\* a u32 as two 16-bit halves <<high, low>>, and the u32 values the header
\* is built from: 0, 0x00000102, 0x0102FFFF, 0xFFFF0000 and 0xFFFFFFFF
U32 == {<<0, 0>>, <<0, 258>>, <<258, 65535>>, <<65535, 0>>, <<65535, 65535>>}

\* a decoding that reads the four bytes lowest first
FromBeBytes_Le(b) == <<b[4] * 256 + b[3], b[2] * 256 + b[1]>>

\* u32::from_be_bytes
FromBeBytes(b) == <<b[1] * 256 + b[2], b[3] * 256 + b[4]>>

\* u32::to_be_bytes
ToBeBytes(x) == <<x[1] \div 256, x[1] % 256, x[2] \div 256, x[2] % 256>>

\* DataHeader::new: the 16 bytes buf[0..4], buf[4..8], buf[8..12], buf[12..16]
DataHeaderNew(crc, timestamp, key_sz, value_sz) ==
  ToBeBytes(crc) \o ToBeBytes(timestamp) \o ToBeBytes(key_sz) \o ToBeBytes(value_sz)

\* DataHeader::crc, timestamp, key_sz, value_sz on the bytes of a header
HeaderCrc(buf) == FromBeBytes(SubSeq(buf, 1, 4))
HeaderTimestamp(buf) == FromBeBytes(SubSeq(buf, 5, 8))
HeaderKeySz(buf) == FromBeBytes(SubSeq(buf, 9, 12))
HeaderValueSz(buf) == FromBeBytes(SubSeq(buf, 13, 16))

\* DataEntry::size
EntrySize(rec) == HEADER_SIZE + ByteLen(rec.key) + ByteLen(rec.value)

\* DataEntry::new: crc 0, timestamp = wall clock now
NewDataEntry(key, value, now) == [key |-> key, value |-> value, ts |-> now]

WholeChunk(rec) == [rec |-> rec, valid |-> EntrySize(rec), len |-> EntrySize(rec)]

RECURSIVE FileSize(_)
FileSize(f) == IF f = <<>> THEN 0 ELSE f[1].len + FileSize(Tail(f))

\* byte offset at which chunk i of f starts
ChunkOffset(f, i) == FileSize(SubSeq(f, 1, i - 1))

ChunkAt(f, offset) == {i \in 1..Len(f) : ChunkOffset(f, i) = offset}

NoChunk == [rec |-> [key |-> None, value |-> None, ts |-> 0], valid |-> 0, len |-> 0]
Garbage == [key |-> "garbage", value |-> "garbage", ts |-> 0]

\* DataEntry::read_from: None when no byte is left at offset, the record
\* when its bytes are all there, otherwise whatever the bytes decode to.
ReadFrom(f, offset) ==
  IF offset >= FileSize(f) THEN NoChunk.rec
  ELSE IF ChunkAt(f, offset) = {} THEN Garbage
  ELSE LET c == f[CHOOSE i \in ChunkAt(f, offset) : TRUE]
       IN IF c.valid = EntrySize(c.rec) THEN c.rec ELSE Garbage

\* DataFile::read: nothing when the file is shorter than offset
DataFileRead(f, offset) ==
  IF FileSize(f) < offset THEN NoChunk.rec ELSE ReadFrom(f, offset)

\* LogFile::copy_bytes_from: the chunk that `size` bytes taken at `offset`
\* of src make at the tail of the destination (len 0: fewer than `size`
\* bytes were there, the assert_eq! fails).
CopyChunk(src, offset, size) ==
  IF offset + size > FileSize(src) \/ ChunkAt(src, offset) = {} THEN NoChunk
  ELSE LET c == src[CHOOSE i \in ChunkAt(src, offset) : TRUE]
       IN [rec |-> c.rec,
           valid |-> IF c.valid < size THEN c.valid ELSE size,
           len |-> size]

\* HintEntry::new / HintEntry::size: value_sz = size - 16 - key_sz, and the
\* derived record size is 16 + key_sz + value_sz
NewHintEntry(key, offset, size) ==
  [key |-> key, offset |-> offset,
   value_sz |-> size - HEADER_SIZE - ByteLen(key)]

HintEntrySize(h) == HEADER_SIZE + ByteLen(h.key) + h.value_sz

\* ------------------------------------------------------------ keydir.rs
KeydirEntry(file_id, offset, size, timestamp) ==
  [file_id |-> file_id, offset |-> offset, size |-> size, timestamp |-> timestamp]

\* a put that never replaces an entry
KeydirPut_KeepOld(kd, key, entry) ==
  IF key \notin DOMAIN kd THEN kd @@ (key :> entry) ELSE kd

\* a put that replaces only on a strictly newer timestamp
KeydirPut_Strict(kd, key, entry) ==
  IF key \notin DOMAIN kd THEN kd @@ (key :> entry)
  ELSE IF kd[key].timestamp < entry.timestamp
       THEN [kd EXCEPT ![key] = entry]
       ELSE kd

\* HashmapKeydir::put
KeydirPut(kd, key, entry) ==
  IF key \notin DOMAIN kd THEN kd @@ (key :> entry)
  ELSE IF kd[key].timestamp <= entry.timestamp
       THEN [kd EXCEPT ![key] = entry]
       ELSE kd

\* HashmapKeydir::put returns a reference to the entry the map holds for
\* the key after the call
KeydirPutRet(kd, key, entry) == KeydirPut(kd, key, entry)[key]

\* a remove that leaves the key directory as it was
KeydirRemove_Keep(kd, key) == kd

\* HashmapKeydir::remove
KeydirRemove(kd, key) == [k \in DOMAIN kd \ {key} |-> kd[k]]

EmptyMap == [k \in {} |-> 0]

\* ------------------------------------------------------------ the disk
\* what a read handle of segment id sees (an unlinked file reads as empty)
Content(disk, id) == IF id \in DOMAIN disk THEN disk[id] ELSE <<>>

\* fs::OpenOptions::new().create(true).append(true).open(path)
CreateIfAbsent(disk, id) == IF id \in DOMAIN disk THEN disk ELSE disk @@ (id :> <<>>)

RemoveFile(disk, id) == [i \in DOMAIN disk \ {id} |-> disk[i]]

AppendTo(disk, id, x) == [disk EXCEPT ![id] = Append(@, x)]

\* a drop that leaves the file, empty or not
DropWriter_Keep(disk, id) == disk

\* impl Drop for LogFile, for an appendable handle: an empty file is removed
DropWriter(disk, id) ==
  IF id \in DOMAIN disk /\ disk[id] = <<>> THEN RemoveFile(disk, id) ELSE disk

SetMax(S) == IF S = {} THEN 0 ELSE CHOOSE m \in S : \A x \in S : x <= m

\* ------------------------------------------------------------ storage.rs
\* DiskStorage::new_active_data_file: st is the engine's view
\* [disk, table, active, wpos]; file_id = 0 stands for None.
NewActiveDataFile(st, file_id) ==
  LET next_file_id == IF file_id = 0 THEN SetMax(st.table) + 1 ELSE file_id
      created == CreateIfAbsent(st.disk, next_file_id)
      dropped == IF st.active = 0 \/ st.active = next_file_id THEN created
                 ELSE DropWriter(created, st.active)
  IN [disk |-> dropped,
      table |-> st.table \cup {next_file_id},
      active |-> next_file_id,
      wpos |-> 0]

\* DiskStorage::write with DataFile::write and DataEntry::write_to: rotate
\* when the active segment is larger than max_log_file_size, append the
\* record, return the writer's stream position before the append as offset.
EngineWrite(st, key, value, now) ==
  LET st1 == IF FileSize(Content(st.disk, st.active)) > MaxLogFileSize
             THEN NewActiveDataFile(st, 0) ELSE st
      rec == NewDataEntry(key, value, now)
      disk2 == AppendTo(st1.disk, st1.active, WholeChunk(rec))
  IN [disk |-> disk2,
      table |-> st1.table,
      active |-> st1.active,
      wpos |-> FileSize(disk2[st1.active]),
      entry |-> KeydirEntry(st1.active, st1.wpos, EntrySize(rec), rec.ts)]

\* DiskStorage::get on a key directory kd, segment table and disk
GetIn(kd, table, disk, key) ==
  IF key \notin DOMAIN kd THEN None
  ELSE IF kd[key].file_id \notin table THEN "panic"
  ELSE DataFileRead(Content(disk, kd[key].file_id), kd[key].offset).value

ViewIn(kd, table, disk) == [k \in Keys |-> GetIn(kd, table, disk, k)]

\* DiskStorage::build_keydir_from_hint_file: every hint record is put with
\* the hint file's id, its offset, its derived size and timestamp 0
RECURSIVE BuildFromHint(_, _, _)
BuildFromHint(kd, id, hs) ==
  IF hs = <<>> THEN kd
  ELSE BuildFromHint(
         KeydirPut(kd, hs[1].key,
                   KeydirEntry(id, hs[1].offset, HintEntrySize(hs[1]), 0)),
         id, Tail(hs))

\* whether DataEntryIter can walk the file record by record
WellFramed(f) == \A i \in 1..Len(f) : f[i].valid = f[i].len /\ f[i].len = EntrySize(f[i].rec)

\* DiskStorage::build_keydir_from_data_file over the records from index i on
RECURSIVE BuildFromData(_, _, _, _)
BuildFromData(kd, id, f, i) ==
  IF i > Len(f) THEN kd
  ELSE LET rec == f[i].rec
       IN BuildFromData(
            IF rec.value = REMOVE_TOMESTONE THEN KeydirRemove(kd, rec.key)
            ELSE KeydirPut(kd, rec.key,
                           KeydirEntry(id, ChunkOffset(f, i), EntrySize(rec), rec.ts)),
            id, f, i + 1)

\* DiskStorage::build_keydir: ascending ids, the hint file when it exists
RECURSIVE BuildKeydir(_, _, _, _)
BuildKeydir(kd, ids, disk, hints) ==
  IF ids = {} THEN kd
  ELSE LET id == CHOOSE m \in ids : \A x \in ids : m <= x
       IN BuildKeydir(
            IF id \in DOMAIN hints THEN BuildFromHint(kd, id, hints[id])
            ELSE BuildFromData(kd, id, disk[id], 1),
            ids \ {id}, disk, hints)

\* the data files a replay walks record by record
Replayed(disk, hints) == {id \in DOMAIN disk : id \notin DOMAIN hints}

\* ------------------------------------------------------------ compaction
\* one call of the closure DiskStorage::compact hands to keydir.for_each;
\* c = [disk, hints, table, kd, cid, cpos, ok]
CompactEntry(c, key) ==
  LET rotate == FileSize(Content(c.disk, c.cid)) > MaxLogFileSize
      cid == IF rotate THEN c.cid + 1 ELSE c.cid
      disk1 == IF rotate THEN CreateIfAbsent(c.disk, cid) ELSE c.disk
      hints1 == IF rotate THEN DropWriter(CreateIfAbsent(c.hints, cid), c.cid)
                ELSE c.hints
      table1 == c.table \cup {cid}
      cpos1 == IF rotate THEN 0 ELSE c.cpos
      e == c.kd[key]
      chunk == CopyChunk(Content(disk1, e.file_id), e.offset, e.size)
      disk2 == AppendTo(disk1, cid, chunk)
  IN IF e.file_id \notin table1 \/ chunk.len = 0
     THEN [c EXCEPT !.disk = disk1, !.hints = hints1, !.table = table1,
                    !.cid = cid, !.cpos = cpos1, !.ok = FALSE]
     ELSE [disk |-> disk2,
           hints |-> AppendTo(hints1, cid, NewHintEntry(key, cpos1, e.size)),
           table |-> table1,
           kd |-> [c.kd EXCEPT ![key] = [e EXCEPT !.file_id = cid, !.offset = cpos1]],
           cid |-> cid,
           cpos |-> FileSize(disk2[cid]),
           ok |-> TRUE]

\* HashmapKeydir::for_each driving the closure over the entries in the
\* map's iteration order: the closure answers Ok(false), so it goes on
RECURSIVE CompactLoop(_, _)
CompactLoop(c, order) ==
  IF order = <<>> \/ ~c.ok THEN c
  ELSE CompactLoop(CompactEntry(c, order[1]), Tail(order))

RECURSIVE RemoveStale(_, _, _)
RemoveStale(disk, ids, limit) ==
  IF ids = {} THEN disk
  ELSE LET id == CHOOSE x \in ids : TRUE
       IN RemoveStale(IF id <= limit THEN RemoveFile(disk, id) ELSE disk,
                      ids \ {id}, limit)

\* DiskStorage::compact up to the call of keydir.for_each: the new active
\* segment and the first compaction segment with its hint file
CompactStart(st, hints) ==
  LET next_file_id == st.active + 1
      st1 == NewActiveDataFile(st, next_file_id + 1)
      cid0 == next_file_id + 2
  IN [disk |-> CreateIfAbsent(st1.disk, cid0),
      hints |-> CreateIfAbsent(hints, cid0),
      table |-> st1.table \cup {cid0},
      active |-> st1.active,
      wpos |-> st1.wpos,
      cid |-> cid0,
      limit |-> next_file_id]

\* DiskStorage::compact from keydir.for_each on: the copy of every entry,
\* the removal of the stale segments, the drop of the compaction writers
CompactRest(s, kd, order) ==
  LET c0 == [disk |-> s.disk, hints |-> s.hints, table |-> s.table,
             kd |-> kd, cid |-> s.cid, cpos |-> 0, ok |-> TRUE]
      c == CompactLoop(c0, order)
      disk3 == IF c.ok THEN RemoveStale(c.disk, c.table, s.limit) ELSE c.disk
      hints3 == IF c.ok THEN RemoveStale(c.hints, c.table, s.limit) ELSE c.hints
  IN [disk |-> DropWriter(disk3, c.cid),
      hints |-> DropWriter(hints3, c.cid),
      table |-> IF c.ok THEN {id \in c.table : id > s.limit} ELSE c.table,
      active |-> s.active,
      wpos |-> s.wpos,
      kd |-> c.kd,
      last |-> c.cid,
      ok |-> c.ok]

\* DiskStorage::compact for one iteration order of the key directory
CompactIn(st, kd, hints, order) == CompactRest(CompactStart(st, hints), kd, order)

\* DiskStorage::compact cut short by the death of the process at `point`:
\* "rotated" after new_active_data_file, "copying" after the closure has
\* run for the first n entries of `order`, "removing" after all entries
\* were copied, the data and hint files of the segments in `gone` were
\* removed and the data file of the segments in `half` was.  Nothing is
\* dropped, so empty files stay.
CompactCut(st, kd, hints, order, point, n, gone, half) ==
  LET s == CompactStart(st, hints)
      c0 == [disk |-> s.disk, hints |-> s.hints, table |-> s.table,
             kd |-> kd, cid |-> s.cid, cpos |-> 0, ok |-> TRUE]
      c == CompactLoop(c0, SubSeq(order, 1, n))
  IN IF point = "rotated"
     THEN [disk |-> CreateIfAbsent(st.disk, s.active), hints |-> hints, ok |-> TRUE]
     ELSE IF point = "copying"
     THEN [disk |-> c.disk, hints |-> c.hints, ok |-> c.ok]
     ELSE [disk |-> RemoveStale(c.disk, gone \cup half, s.limit),
           hints |-> RemoveStale(c.hints, gone, s.limit),
           ok |-> c.ok]

\* the orders in which a HashMap may hand out the keys of S
Orders(S) == {o \in [1..Cardinality(S) -> S] : \A i, j \in 1..Cardinality(S) : o[i] = o[j] => i = j}

\* what a callback may answer: Ok(true), Ok(false) or Err
Answers == {"true", "false", "err"}

\* HashmapKeydir::for_each driving the closure of DiskStorage::for_each
\* over the entries in iteration order.  The closure reads the record the
\* entry names and hands its key and value to the callback f; the answer
\* of f for a key is answers[key].  The loop breaks when the closure
\* answers Ok(true), goes on when it answers Ok(false) (or when no record
\* is read) and returns the error when it fails.  r = [calls, ret].
RECURSIVE ForEachIn(_, _, _, _, _, _)
ForEachIn(kd, table, disk, order, answers, calls) ==
  IF order = <<>> THEN [calls |-> calls, ret |-> "ok"]
  ELSE LET en == kd[order[1]]
           rec == DataFileRead(Content(disk, en.file_id), en.offset)
           ans == IF rec.key \in DOMAIN answers THEN answers[rec.key] ELSE "false"
           called == Append(calls, [key |-> rec.key, value |-> rec.value])
       IN IF en.file_id \notin table THEN [calls |-> calls, ret |-> "panic"]
          ELSE IF rec = NoChunk.rec
            THEN ForEachIn(kd, table, disk, Tail(order), answers, calls)
          ELSE IF ans = "err" THEN [calls |-> called, ret |-> "err"]
          ELSE IF ans = "true" THEN [calls |-> called, ret |-> "ok"]
          ELSE ForEachIn(kd, table, disk, Tail(order), answers, called)

\* ------------------------------------------------------------ the engine
\* the key directory a HashmapKeydir is exercised in on its own
TheMap == "e1"

EngSt(e) == [disk |-> dataDisk, table |-> data_files[e],
             active |-> active[e], wpos |-> wpos[e]]

\* a contains_key that only asks whether the key directory has any key
ContainsKey_Any(e, key) == DOMAIN keydir[e] # {}

\* DiskStorage::get / contains_key of engine e
EngineGet(e, key) == GetIn(keydir[e], data_files[e], dataDisk, key)
ContainsKey(e, key) == key \in DOMAIN keydir[e]

\* DiskStorage::keys, len and is_empty of engine e
EngineKeys(e) == DOMAIN keydir[e]
EngineLen(e) == Cardinality(DOMAIN keydir[e])
EngineIsEmpty(e) == EngineLen(e) = 0

\* what the caller of the last operation saw: the call, its arguments and
\* its result (lo, hi: the boundary id and the last output id of a compact;
\* arg: a callback or an entry handed in; out: what came back besides ret,
\* for a set or delete the file id and the offset DataFile::write returned)
Call(op, e, key, val, r, lo, hi) ==
  [op |-> op, eng |-> e, key |-> key, val |-> val, ret |-> r,
   again |-> (op = "delete" /\ last.op = "delete" /\ last.key = key /\ last.eng = e),
   lo |-> lo, hi |-> hi, arg |-> <<>>, out |-> <<>>]

\* a fresh RwLock, and a worker that is in no wrapper call
Unlocked == [writer |-> None, readers |-> {}, poisoned |-> FALSE]
Idle == [op |-> "none", key |-> None, val |-> None, phase |-> "idle",
         snap |-> <<>>, tmp |-> <<>>]

\* ------------------------------------------------------------ threadpool.rs
\* Worker::id of the workers of ThreadPool::new(PoolSize)
PoolIds == 0..(PoolSize - 1)

\* Message::NewJob(job) for the j-th job handed to execute, and
\* Message::Terminate
NewJob(j) == [kind |-> "NewJob", job |-> j]
Terminate == [kind |-> "Terminate", job |-> 0]

\* ThreadPool::new: an empty channel whose sender the pool keeps, a mutex
\* around the receiver, and PoolSize spawned threads in front of
\* receiver.lock().  body and ran list the jobs handed to execute and the
\* workers that ran each; owner is where the thread that owns the pool
\* stands in impl Drop.
ThreadPoolNew ==
  [queue |-> <<>>, sender |-> TRUE, holder |-> {}, poisoned |-> FALSE,
   at |-> [w \in PoolIds |-> "lock"],
   cur |-> [w \in PoolIds |-> 0],
   took |-> [w \in PoolIds |-> 0],
   body |-> <<>>, ran |-> <<>>,
   owner |-> "alive", sent |-> 0, joined |-> 0]

Init ==
  /\ lockFile = FALSE
  /\ dataDisk = EmptyMap
  /\ hintDisk = EmptyMap
  /\ pc = [e \in Engines |-> "closed"]
  /\ data_files = [e \in Engines |-> {}]
  /\ active = [e \in Engines |-> 0]
  /\ wpos = [e \in Engines |-> 0]
  /\ keydir = [e \in Engines |-> EmptyMap]
  /\ clock = 1
  /\ last = [op |-> "none", eng |-> None, key |-> None, val |-> None, ret |-> "ok",
             again |-> FALSE, lo |-> 0, hi |-> 0, arg |-> <<>>, out |-> <<>>]
  /\ written = [k \in Keys |-> None]
  /\ touched = {}
  /\ compacted = FALSE
  /\ lastView = [k \in Keys |-> None]
  /\ steps = 0
  /\ rwlock = Unlocked
  /\ job = [t \in Workers |-> Idle]
  /\ clones = {}
  /\ atOpen = [data |-> EmptyMap, hints |-> EmptyMap, quiet |-> FALSE]
  /\ pool = ThreadPoolNew

\* a lock file that stays behind when its holder is dropped
LockfileDrop_Keep(exists) == exists

\* impl Drop for Lockfile: the LOCK file is removed
LockfileDrop(exists) == FALSE

\* a lock file opened with create instead of create_new: never refused
LockAcquired_Create(exists) == TRUE

\* Lockfile::lock: create_new(true) creates LOCK unless it exists
LockAcquired(exists) == ~exists

\* open_data_files, build_keydir and new_active_data_file(None) of
\* open_with_options, by the engine that holds the lock.  A data file
\* that cannot be walked record by record makes DataEntryIter panic: the
\* unwinding drops the store and with it the lock.
Replay(e) ==
  IF \A id \in Replayed(dataDisk, hintDisk) : WellFramed(dataDisk[id])
  THEN LET kd == BuildKeydir(EmptyMap, DOMAIN dataDisk, dataDisk, hintDisk)
           st == NewActiveDataFile([disk |-> dataDisk, table |-> DOMAIN dataDisk,
                                    active |-> 0, wpos |-> 0], 0)
       IN /\ dataDisk' = st.disk
          /\ data_files' = [data_files EXCEPT ![e] = st.table]
          /\ active' = [active EXCEPT ![e] = st.active]
          /\ wpos' = [wpos EXCEPT ![e] = st.wpos]
          /\ keydir' = [keydir EXCEPT ![e] = kd]
          /\ lastView' = ViewIn(kd, st.table, st.disk)
          /\ pc' = [pc EXCEPT ![e] = "open"]
          /\ lockFile' = TRUE
          /\ last' = Call("open", e, None, None, "ok", 0, 0)
  ELSE /\ pc' = [pc EXCEPT ![e] = "closed"]
       /\ lockFile' = LockfileDrop(lockFile)
       /\ last' = Call("open", e, None, None, "panic", 0, 0)
       /\ UNCHANGED <<dataDisk, data_files, active, wpos, keydir, lastView>>

\* DiskStorage::open_with_options, run without a racing opener:
\* AlreadyLocked when LOCK exists, and then nothing else is touched
Open(e) ==
  /\ pc[e] = "closed"
  /\ IF LockAcquired(lockFile)
     THEN Replay(e)
     ELSE /\ last' = Call("open", e, None, None, "AlreadyLocked", 0, 0)
          /\ UNCHANGED <<lockFile, pc, dataDisk, data_files, active, wpos,
                         keydir, lastView>>
  /\ touched' = {}
  /\ UNCHANGED <<hintDisk, clock, written, compacted>>

\* DiskStorage::open_with_options up to Lockfile::lock, for openers that
\* race: the lock attempt is one system call
OpenLock(e) ==
  /\ pc[e] = "closed"
  /\ IF LockAcquired(lockFile)
     THEN /\ lockFile' = TRUE
          /\ pc' = [pc EXCEPT ![e] = "locked"]
          /\ last' = Call("lock", e, None, None, "ok", 0, 0)
     ELSE /\ last' = Call("open", e, None, None, "AlreadyLocked", 0, 0)
          /\ UNCHANGED <<lockFile, pc>>
  /\ UNCHANGED <<dataDisk, hintDisk, data_files, active, wpos, keydir, clock,
                 written, touched, compacted, lastView>>

\* the rest of open_with_options for the opener that took the lock
OpenReplay(e) ==
  /\ pc[e] = "locked"
  /\ Replay(e)
  /\ touched' = {}
  /\ UNCHANGED <<hintDisk, clock, written, compacted>>

\* impl Drop for DiskStorage and for its fields: the active segment is
\* removed when empty, the LOCK file is removed
Drop(e) ==
  /\ pc[e] = "open"
  /\ dataDisk' = DropWriter(dataDisk, active[e])
  /\ lockFile' = LockfileDrop(lockFile)
  /\ pc' = [pc EXCEPT ![e] = "closed"]
  /\ data_files' = [data_files EXCEPT ![e] = {}]
  /\ active' = [active EXCEPT ![e] = 0]
  /\ wpos' = [wpos EXCEPT ![e] = 0]
  /\ keydir' = [keydir EXCEPT ![e] = EmptyMap]
  /\ last' = Call("drop", e, None, None, "ok", 0, 0)
  /\ touched' = {}
  /\ UNCHANGED <<hintDisk, clock, written, compacted, lastView>>

\* a size check that lets everything through
TooLarge_Never(len, max) == FALSE

\* the size checks of DiskStorage::set
TooLarge(len, max) == len > max

\* DiskStorage::set
Set(e, key, value) ==
  /\ pc[e] = "open"
  /\ IF TooLarge(ByteLen(key), MaxKeySize)
     THEN /\ last' = Call("set", e, key, value, "KeyIsTooLarge", 0, 0)
          /\ UNCHANGED <<dataDisk, data_files, active, wpos, keydir, lastView,
                         written, touched>>
     ELSE IF TooLarge(ByteLen(value), MaxValueSize)
     THEN /\ last' = Call("set", e, key, value, "ValueIsTooLarge", 0, 0)
          /\ UNCHANGED <<dataDisk, data_files, active, wpos, keydir, lastView,
                         written, touched>>
     ELSE LET w == EngineWrite(EngSt(e), key, value, clock)
              kd == KeydirPut(keydir[e], key, w.entry)
          IN /\ dataDisk' = w.disk
             /\ data_files' = [data_files EXCEPT ![e] = w.table]
             /\ active' = [active EXCEPT ![e] = w.active]
             /\ wpos' = [wpos EXCEPT ![e] = w.wpos]
             /\ keydir' = [keydir EXCEPT ![e] = kd]
             /\ lastView' = ViewIn(kd, w.table, w.disk)
             /\ last' = [Call("set", e, key, value, "ok", 0, 0)
                           EXCEPT !.out = <<w.entry.file_id, w.entry.offset>>]
             /\ written' = [written EXCEPT ![key] = value]
             /\ touched' = touched \cup {key}
  /\ UNCHANGED <<lockFile, hintDisk, pc, clock, compacted>>

\* DiskStorage::get
Get(e, key) ==
  /\ pc[e] = "open"
  /\ last' = Call("get", e, key, None, EngineGet(e, key), 0, 0)
  /\ UNCHANGED <<lockFile, dataDisk, hintDisk, pc, data_files, active, wpos,
                 keydir, clock, written, touched, compacted, lastView>>

\* DiskStorage::delete
Delete(e, key) ==
  /\ pc[e] = "open"
  /\ IF ~ContainsKey(e, key)
     THEN /\ last' = Call("delete", e, key, None, "ok", 0, 0)
          /\ UNCHANGED <<dataDisk, data_files, active, wpos, keydir, lastView>>
     ELSE LET w == EngineWrite(EngSt(e), key, REMOVE_TOMESTONE, clock)
              kd == KeydirRemove(keydir[e], key)
          IN /\ dataDisk' = w.disk
             /\ data_files' = [data_files EXCEPT ![e] = w.table]
             /\ active' = [active EXCEPT ![e] = w.active]
             /\ wpos' = [wpos EXCEPT ![e] = w.wpos]
             /\ keydir' = [keydir EXCEPT ![e] = kd]
             /\ lastView' = ViewIn(kd, w.table, w.disk)
             /\ last' = [Call("delete", e, key, None, "ok", 0, 0)
                           EXCEPT !.out = <<w.entry.file_id, w.entry.offset>>]
  /\ written' = [written EXCEPT ![key] = None]
  /\ touched' = touched \cup {key}
  /\ UNCHANGED <<lockFile, hintDisk, pc, clock, compacted>>

\* DiskStorage::compact.  A failed expect or assert_eq! in the closure
\* panics: the unwinding drops the engine with the directory as it is.
Compact(e) ==
  /\ pc[e] = "open"
  /\ \E order \in Orders(DOMAIN keydir[e]) :
       LET r == CompactIn(EngSt(e), keydir[e], hintDisk, order)
       IN IF r.ok
          THEN /\ dataDisk' = r.disk
               /\ hintDisk' = r.hints
               /\ data_files' = [data_files EXCEPT ![e] = r.table]
               /\ active' = [active EXCEPT ![e] = r.active]
               /\ wpos' = [wpos EXCEPT ![e] = r.wpos]
               /\ keydir' = [keydir EXCEPT ![e] = r.kd]
               /\ lastView' = ViewIn(r.kd, r.table, r.disk)
               /\ last' = Call("compact", e, None, None, "ok", active[e] + 1, r.last)
               /\ UNCHANGED <<lockFile, pc, touched>>
          ELSE /\ dataDisk' = DropWriter(r.disk, r.active)
               /\ hintDisk' = r.hints
               /\ data_files' = [data_files EXCEPT ![e] = {}]
               /\ active' = [active EXCEPT ![e] = 0]
               /\ wpos' = [wpos EXCEPT ![e] = 0]
               /\ keydir' = [keydir EXCEPT ![e] = EmptyMap]
               /\ lockFile' = LockfileDrop(lockFile)
               /\ pc' = [pc EXCEPT ![e] = "closed"]
               /\ last' = Call("compact", e, None, None, "panic", active[e] + 1, r.last)
               /\ touched' = {}
               /\ UNCHANGED lastView
  /\ compacted' = TRUE
  /\ UNCHANGED <<clock, written>>

\* the process dies inside DiskStorage::compact; the LOCK file it leaves
\* behind is removed by hand before the directory is opened again.  The
\* removal loop walks data_files, a BTreeMap, in ascending id order: the
\* segments in `gone` are the first ones, the one in `half` the next.
CompactAbort(e) ==
  /\ pc[e] = "open"
  /\ \E order \in Orders(DOMAIN keydir[e]), point \in {"rotated", "copying", "removing"} :
     \E n \in 0..Len(order) :
     \E gone \in SUBSET {id \in data_files[e] : id <= active[e] + 1} :
     \E half \in SUBSET {id \in data_files[e] : id <= active[e] + 1} :
       LET r == CompactCut(EngSt(e), keydir[e], hintDisk, order, point, n, gone, half)
       IN /\ point = "rotated" => n = 0
          /\ point # "removing" => (gone = {} /\ half = {})
          /\ point = "removing" => (n = Len(order) /\ Cardinality(half) <= 1 /\ half \cap gone = {})
          /\ \A g \in gone \cup half, id \in data_files[e] : id < g => id \in gone
          /\ r.ok
          /\ dataDisk' = r.disk
          /\ hintDisk' = r.hints
          /\ last' = [Call("abort", e, None, None, "crash", active[e] + 1, 0)
                        EXCEPT !.arg = point]
  /\ pc' = [pc EXCEPT ![e] = "closed"]
  /\ data_files' = [data_files EXCEPT ![e] = {}]
  /\ active' = [active EXCEPT ![e] = 0]
  /\ wpos' = [wpos EXCEPT ![e] = 0]
  /\ keydir' = [keydir EXCEPT ![e] = EmptyMap]
  /\ lockFile' = FALSE
  /\ touched' = {}
  /\ compacted' = TRUE
  /\ UNCHANGED <<clock, written, lastView>>

\* DiskStorage::for_each with a callback that answers answers[key]
ForEach(e, answers) ==
  /\ pc[e] = "open"
  /\ \E order \in Orders(DOMAIN keydir[e]) :
       LET r == ForEachIn(keydir[e], data_files[e], dataDisk, order, answers, <<>>)
       IN last' = [Call("for_each", e, None, None, r.ret, 0, 0)
                     EXCEPT !.arg = answers, !.out = r.calls]
  /\ UNCHANGED <<lockFile, dataDisk, hintDisk, pc, data_files, active, wpos,
                 keydir, clock, written, touched, compacted, lastView>>

\* DiskStorage::sync: the active segment is flushed, nothing else changes
Sync(e) ==
  /\ pc[e] = "open"
  /\ last' = Call("sync", e, None, None, "ok", 0, 0)
  /\ UNCHANGED <<lockFile, dataDisk, hintDisk, pc, data_files, active, wpos,
                 keydir, clock, written, touched, compacted, lastView>>

\* DiskStorage::close: it calls sync and leaves the engine as it is
Close(e) ==
  /\ pc[e] = "open"
  /\ last' = Call("close", e, None, None, "ok", 0, 0)
  /\ UNCHANGED <<lockFile, dataDisk, hintDisk, pc, data_files, active, wpos,
                 keydir, clock, written, touched, compacted, lastView>>

\* the wall clock (chrono::Utc::now) moves on, or is set back
ClockAdvance ==
  /\ clock < MaxTs
  /\ clock' = clock + 1
  /\ UNCHANGED <<lockFile, dataDisk, hintDisk, pc, data_files, active, wpos,
                 keydir, last, written, touched, compacted, lastView>>

ClockSetBack ==
  /\ clock > 1
  /\ clock' = clock - 1
  /\ UNCHANGED <<lockFile, dataDisk, hintDisk, pc, data_files, active, wpos,
                 keydir, last, written, touched, compacted, lastView>>

\* one more step of a run of at most MaxSteps steps
Step == steps < MaxSteps /\ steps' = steps + 1 /\ UNCHANGED <<rwlock, job, clones, atOpen, pool>>

\* one engine at a time on the directory
Next ==
  \/ \E e \in Opener : Step /\ Open(e)
  \/ \E e \in Opener : Step /\ Drop(e)
  \/ \E e \in Opener, k \in Keys, v \in Values : Step /\ Set(e, k, v)
  \/ \E e \in Opener, kv \in Oversize : Step /\ Set(e, kv[1], kv[2])
  \/ \E e \in Opener, k \in Keys : Step /\ Get(e, k)
  \/ \E e \in Opener, k \in Keys : Step /\ Delete(e, k)
  \/ \E e \in Opener : Step /\ Compact(e)
  \/ \E e \in Opener : Step /\ Sync(e)
  \/ \E e \in Opener : Step /\ Close(e)
  \/ Step /\ ClockAdvance
  \/ Step /\ ClockSetBack

Spec == Init /\ [][Next]_vars

\* several openers race on the directory
StepRace == steps < MaxRaceSteps /\ steps' = steps + 1 /\ UNCHANGED <<rwlock, job, clones, atOpen, pool>>

NextRace ==
  \/ \E e \in Engines : StepRace /\ OpenLock(e)
  \/ \E e \in Engines : StepRace /\ OpenReplay(e)
  \/ \E e \in Engines : StepRace /\ Drop(e)
  \/ \E e \in Engines, k \in Keys, v \in Values : StepRace /\ Set(e, k, v)
  \/ \E e \in Engines, k \in Keys : StepRace /\ Get(e, k)
  \/ \E e \in Engines, k \in Keys : StepRace /\ Delete(e, k)
  \/ \E e \in Engines : StepRace /\ Compact(e)
  \/ StepRace /\ ClockAdvance
  \/ StepRace /\ ClockSetBack

SpecRace == Init /\ [][NextRace]_vars

\* one engine iterated with for_each, for every callback over the keys
StepIter == steps < MaxIterSteps /\ steps' = steps + 1 /\ UNCHANGED <<rwlock, job, clones, atOpen, pool>>

NextIter ==
  \/ \E e \in Opener : StepIter /\ Open(e)
  \/ \E e \in Opener, k \in Keys, v \in Values : StepIter /\ Set(e, k, v)
  \/ \E e \in Opener, k \in Keys : StepIter /\ Delete(e, k)
  \/ \E e \in Opener : StepIter /\ Compact(e)
  \/ \E e \in Opener, f \in [Keys -> Answers] : StepIter /\ ForEach(e, f)

SpecIter == Init /\ [][NextIter]_vars

\* sessions on one directory: open, mutate, compact, drop and open again
StepReopen == steps < MaxReopenSteps /\ steps' = steps + 1 /\ UNCHANGED <<rwlock, job, clones, atOpen, pool>>

NextReopen ==
  \/ \E e \in Opener : StepReopen /\ Open(e)
  \/ \E e \in Opener : StepReopen /\ Drop(e)
  \/ \E e \in Opener, k \in Keys : StepReopen /\ Set(e, k, "a")
  \/ \E e \in Opener, k \in Keys : StepReopen /\ Delete(e, k)
  \/ \E e \in Opener : StepReopen /\ Compact(e)

SpecReopen == Init /\ [][NextReopen]_vars

\* sessions that may end without a successful write.  atOpen keeps the
\* data and hint files the directory had when the engine was opened and
\* whether the session has been without a successful write since.
StepIdle == steps < MaxIdleSteps /\ steps' = steps + 1 /\ UNCHANGED <<rwlock, job, clones, pool>>

IdleOpen(e) ==
  /\ Open(e)
  /\ atOpen' = IF last'.ret = "ok"
               THEN [data |-> dataDisk, hints |-> hintDisk, quiet |-> TRUE]
               ELSE atOpen

\* whether the call that `l` reports wrote to the directory
Wrote(l) ==
  \/ l.op \in {"set", "delete"} /\ l.ret = "ok" /\ l.out # <<>>
  \/ l.op = "compact"

IdleCall(e) ==
  /\ \/ \E k \in Keys : Set(e, k, "b")
     \/ \E kv \in Oversize : Set(e, kv[1], kv[2])
     \/ \E k \in Keys : Get(e, k)
     \/ \E k \in Keys : Delete(e, k)
     \/ Compact(e)
     \/ Sync(e)
     \/ Close(e)
  /\ atOpen' = [atOpen EXCEPT !.quiet = @ /\ ~Wrote(last')]

IdleDrop(e) == Drop(e) /\ UNCHANGED atOpen

NextIdle ==
  \/ \E e \in Opener : StepIdle /\ IdleOpen(e)
  \/ \E e \in Opener : StepIdle /\ IdleCall(e)
  \/ \E e \in Opener : StepIdle /\ IdleDrop(e)

SpecIdle == Init /\ [][NextIdle]_vars

\* a header is built, turned into bytes (AsRef<[u8]>), turned back
\* (From<[u8; HEADER_SIZE]>) and decoded
HeaderCall(crc, timestamp, key_sz, value_sz) ==
  LET buf == DataHeaderNew(crc, timestamp, key_sz, value_sz)
  IN /\ last' = [Call("header", None, None, None, "ok", 0, 0)
                   EXCEPT !.arg = <<crc, timestamp, key_sz, value_sz>>,
                          !.out = <<Len(buf), HeaderCrc(buf), HeaderTimestamp(buf),
                                    HeaderKeySz(buf), HeaderValueSz(buf)>>]
     /\ UNCHANGED <<lockFile, dataDisk, hintDisk, pc, data_files, active, wpos,
                    keydir, clock, written, touched, compacted, lastView>>

StepHeader == steps < MaxHeaderSteps /\ steps' = steps + 1 /\ UNCHANGED <<rwlock, job, clones, atOpen, pool>>

NextHeader ==
  \E crc, timestamp, key_sz, value_sz \in U32 :
    StepHeader /\ HeaderCall(crc, timestamp, key_sz, value_sz)

SpecHeader == Init /\ [][NextHeader]_vars

\* a data file byte by byte, with a tail that an append cut short left.
\* Keys and values are byte strings here.
TailKeys == {<<107>>, <<107, 50, 50, 50>>}
TailValues == {<<97>>, <<98, 98>>}
TailRecords == TailKeys \X TailValues

Zeros(n) == [i \in 1..n |-> 0]

\* DataEntry::write_to: header, key, value
RecordBytes(key, value, ts) ==
  DataHeaderNew(<<0, 0>>, <<0, ts>>, <<0, Len(key)>>, <<0, Len(value)>>)
    \o key \o value

\* header.key_sz() as usize: a size of 65536 or more is beyond any file here
AsUsize(x) == IF x[1] # 0 THEN 65536 ELSE x[2]

\* DataEntry::read_from on the bytes of a file: r.read fills buf with the
\* bytes that are left, at most HEADER_SIZE, and leaves the rest of buf 0;
\* only a read of 0 bytes gives None; read_exact fails when the key and
\* value bytes are not all there, and `?` turns its io::Error into
\* StoreError::Io.
ReadFromBytes(file, offset) ==
  LET avail == IF offset >= Len(file) THEN 0 ELSE Len(file) - offset
      n == IF avail < HEADER_SIZE THEN avail ELSE HEADER_SIZE
      buf == SubSeq(file, offset + 1, offset + n) \o Zeros(HEADER_SIZE - n)
      key_sz == AsUsize(HeaderKeySz(buf))
      value_sz == AsUsize(HeaderValueSz(buf))
      at == offset + HEADER_SIZE
  IN IF n = 0 THEN [kind |-> "None"]
     ELSE IF avail - n < key_sz + value_sz THEN [kind |-> "Err", error |-> "Io"]
     ELSE [kind |-> "Some",
           key |-> SubSeq(file, at + 1, at + key_sz),
           value |-> SubSeq(file, at + key_sz + 1, at + key_sz + value_sz),
           timestamp |-> HeaderTimestamp(buf),
           size |-> HEADER_SIZE + key_sz + value_sz]

\* DataEntryIter::next called until it returns None: the offsets of the
\* entries it yields; an Err of read_from is unwrapped
RECURSIVE DataEntryIter(_, _, _)
DataEntryIter(file, offset, yielded) ==
  LET r == ReadFromBytes(file, offset)
  IN IF r.kind = "None" THEN [ret |-> "ok", offsets |-> yielded]
     ELSE IF r.kind = "Err" THEN [ret |-> "panic", offsets |-> yielded]
     ELSE DataEntryIter(file, offset + r.size, Append(yielded, offset))

\* what the caller of read_from gets: None, Some, or the error's variant
ReadOutcome(r) == IF r.kind = "Err" THEN r.error ELSE r.kind

RECURSIVE FileBytes(_)
FileBytes(recs) ==
  IF recs = <<>> THEN <<>>
  ELSE RecordBytes(recs[1][1], recs[1][2], 1) \o FileBytes(Tail(recs))

\* the offsets at which the records of recs start
RecordOffsets(recs) ==
  [i \in 1..Len(recs) |-> Len(FileBytes(SubSeq(recs, 1, i - 1)))]

\* build_keydir_from_data_file on a file of the whole records `recs`
\* followed by the first n bytes of the record `cut` (fewer than the
\* record has): read_from at the
\* offset of the tail, then the walk of the whole file
TailCall(recs, cut, n) ==
  LET whole == FileBytes(recs)
      file == whole \o SubSeq(RecordBytes(cut[1], cut[2], 1), 1, n)
      walk == DataEntryIter(file, 0, <<>>)
  IN /\ last' = [Call("replay", None, ReadOutcome(ReadFromBytes(file, Len(whole))), None,
                       walk.ret, Len(whole), Len(file))
                   EXCEPT !.arg = RecordOffsets(recs), !.out = walk.offsets]
     /\ UNCHANGED <<lockFile, dataDisk, hintDisk, pc, data_files, active, wpos,
                    keydir, clock, written, touched, compacted, lastView>>

StepTail == steps < MaxTailSteps /\ steps' = steps + 1 /\ UNCHANGED <<rwlock, job, clones, atOpen, pool>>

NextTail ==
  \E len \in 0..MaxTailRecords :
    \E recs \in [1..len -> TailRecords], cut \in TailRecords :
      \E n \in 0..(HEADER_SIZE + Len(cut[1]) + Len(cut[2]) - 1) :
        StepTail /\ TailCall(recs, cut, n)

SpecTail == Init /\ [][NextTail]_vars

\* sessions in which a compaction may be cut short by a crash
StepCrash == steps < MaxCrashSteps /\ steps' = steps + 1 /\ UNCHANGED <<rwlock, job, clones, atOpen, pool>>

NextCrash ==
  \/ \E e \in Opener : StepCrash /\ Open(e)
  \/ \E e \in Opener : StepCrash /\ Drop(e)
  \/ \E e \in Opener, k \in Keys, v \in Values : StepCrash /\ Set(e, k, v)
  \/ \E e \in Opener, k \in Keys : StepCrash /\ Delete(e, k)
  \/ \E e \in Opener : StepCrash /\ Compact(e)
  \/ \E e \in Opener : StepCrash /\ CompactAbort(e)

SpecCrash == Init /\ [][NextCrash]_vars

\* the process dies between two calls: no drop runs, so the LOCK file and
\* the active segment's file, empty or not, stay as they are
Crash(e) ==
  /\ pc[e] = "open"
  /\ pc' = [pc EXCEPT ![e] = "closed"]
  /\ data_files' = [data_files EXCEPT ![e] = {}]
  /\ active' = [active EXCEPT ![e] = 0]
  /\ wpos' = [wpos EXCEPT ![e] = 0]
  /\ keydir' = [keydir EXCEPT ![e] = EmptyMap]
  /\ last' = Call("crash", e, None, None, "crash", 0, 0)
  /\ touched' = {}
  /\ UNCHANGED <<lockFile, dataDisk, hintDisk, clock, written, compacted, lastView>>

\* an operator removes the LOCK file a dead process left behind
RemoveLock ==
  /\ lockFile
  /\ \A e \in Engines : pc[e] = "closed"
  /\ lockFile' = FALSE
  /\ last' = Call("unlock", None, None, None, "ok", 0, 0)
  /\ UNCHANGED <<dataDisk, hintDisk, pc, data_files, active, wpos, keydir,
                 clock, written, touched, compacted, lastView>>

\* sessions that may end in a crash
StepStale == steps < MaxStaleSteps /\ steps' = steps + 1 /\ UNCHANGED <<rwlock, job, clones, atOpen, pool>>

NextStale ==
  \/ \E e \in Opener : StepStale /\ Open(e)
  \/ \E e \in Opener : StepStale /\ Drop(e)
  \/ \E e \in Opener, k \in Keys, v \in Values : StepStale /\ Set(e, k, v)
  \/ \E e \in Opener, k \in Keys : StepStale /\ Delete(e, k)
  \/ \E e \in Opener : StepStale /\ Crash(e)
  \/ StepStale /\ RemoveLock

SpecStale == Init /\ [][NextStale]_vars

\* ------------------------------------------------------------ keydir.rs
\* the entries handed to put: two segments, two offsets, every timestamp
PutEntries ==
  {KeydirEntry(f, o, HEADER_SIZE + 2, ts) : f \in 1..2, o \in {0, HEADER_SIZE + 2}, ts \in 0..MaxTs}

\* HashmapKeydir::put called on the key directory of a HashmapKeydir that
\* started as HashmapKeydir::default()
PutCall(key, entry) ==
  /\ keydir' = [keydir EXCEPT ![TheMap] = KeydirPut(keydir[TheMap], key, entry)]
  /\ last' = [Call("put", TheMap, key, None, "ok", 0, 0)
                EXCEPT !.arg = entry, !.out = <<KeydirPutRet(keydir[TheMap], key, entry)>>]
  /\ UNCHANGED <<lockFile, dataDisk, hintDisk, pc, data_files, active, wpos,
                 clock, written, touched, compacted, lastView>>

\* HashmapKeydir::remove called on it
RemoveCall(key) ==
  /\ keydir' = [keydir EXCEPT ![TheMap] = KeydirRemove(keydir[TheMap], key)]
  /\ last' = Call("remove", TheMap, key, None, "ok", 0, 0)
  /\ UNCHANGED <<lockFile, dataDisk, hintDisk, pc, data_files, active, wpos,
                 clock, written, touched, compacted, lastView>>

StepPut == steps < MaxPutSteps /\ steps' = steps + 1 /\ UNCHANGED <<rwlock, job, clones, atOpen, pool>>

NextPut ==
  \/ \E k \in Keys, en \in PutEntries : StepPut /\ PutCall(k, en)
  \/ \E k \in Keys : StepPut /\ RemoveCall(k)

SpecPut == Init /\ [][NextPut]_vars

\* ------------------------------------------------------------ arc.rs
\* the Store behind the Arc<RwLock<Store>> of every clone
TheStore == "e1"

\* the callbacks the workers hand to for_each: one answer for every key
ArcCallbacks == {[k \in Keys |-> a] : a \in Answers}

ExclusiveOps == {"get", "set", "delete", "compact", "close", "sync", "for_each"}
SharedOps == {"keys", "len", "is_empty", "contains_key"}

\* a wrapper in which every method takes the shared hold
LockMode_Shared(op) == "read"

\* impl Storage for BitCask: inner.read() in contains_key, is_empty, keys
\* and len, inner.write() in every other method
LockMode(op) == IF op \in SharedOps THEN "read" ELSE "write"

\* a lock that never makes anybody wait
CanLock_Always(mode) == TRUE

\* a guard that is never given back
Released_Kept(t, panicking) == rwlock

\* RwLock: a writer excludes everybody, readers exclude writers
CanLock(mode) ==
  IF mode = "write" THEN rwlock.writer = None /\ rwlock.readers = {}
  ELSE rwlock.writer = None

Locked(t, mode) ==
  IF mode = "write" THEN [rwlock EXCEPT !.writer = t]
  ELSE [rwlock EXCEPT !.readers = @ \cup {t}]

\* the guard of worker t is dropped; dropped while panicking, a write
\* guard poisons the lock
Released(t, panicking) ==
  [writer |-> IF rwlock.writer = t THEN None ELSE rwlock.writer,
   readers |-> rwlock.readers \ {t},
   poisoned |-> rwlock.poisoned \/ (panicking /\ rwlock.writer = t)]

\* the whole engine as one value
StoreValue ==
  [disk |-> dataDisk, hints |-> hintDisk, table |-> data_files[TheStore],
   active |-> active[TheStore], wpos |-> wpos[TheStore], kd |-> keydir[TheStore]]

Install(s) ==
  /\ dataDisk' = s.disk
  /\ hintDisk' = s.hints
  /\ data_files' = [data_files EXCEPT ![TheStore] = s.table]
  /\ active' = [active EXCEPT ![TheStore] = s.active]
  /\ wpos' = [wpos EXCEPT ![TheStore] = s.wpos]
  /\ keydir' = [keydir EXCEPT ![TheStore] = s.kd]

\* BitCask::open_with_options by worker t: the store is opened and put
\* behind a new lock
BitCaskOpen(t) ==
  /\ clones = {}
  /\ Open(TheStore)
  /\ clones' = IF pc'[TheStore] = "open" THEN {t} ELSE {}
  /\ rwlock' = Unlocked
  /\ UNCHANGED job

\* impl Clone for BitCask: worker u gets a clone of the handle of worker t
BitCaskClone(t, u) ==
  /\ t \in clones /\ u \notin clones
  /\ clones' = clones \cup {u}
  /\ UNCHANGED <<lockFile, dataDisk, hintDisk, pc, data_files, active, wpos,
                 keydir, clock, last, written, touched, compacted, lastView,
                 rwlock, job>>

\* worker t drops its handle; the last one drops the Store
BitCaskDrop(t) ==
  /\ t \in clones /\ job[t].phase = "idle"
  /\ clones' = clones \ {t}
  /\ IF clones = {t}
     THEN Drop(TheStore)
     ELSE UNCHANGED <<lockFile, dataDisk, hintDisk, pc, data_files, active,
                      wpos, keydir, clock, last, written, touched, compacted,
                      lastView>>
  /\ UNCHANGED <<rwlock, job>>

\* the caller of the wrapper method sees its result
Returned(t, ret, out) ==
  [Call(job[t].op, TheStore, job[t].key, job[t].val, ret, 0, 0)
     EXCEPT !.arg = t, !.out = out]

\* the first line of every method: inner.write().unwrap() or
\* inner.read().unwrap().  The call blocks while the lock cannot be taken;
\* on a poisoned lock unwrap panics.
Acquire(t, op, key, val) ==
  /\ t \in clones /\ job[t].phase = "idle"
  /\ IF rwlock.poisoned
     THEN /\ last' = [Call(op, TheStore, key, val, "panic", 0, 0) EXCEPT !.arg = t]
          /\ UNCHANGED <<rwlock, job>>
     ELSE /\ CanLock(LockMode(op))
          /\ rwlock' = Locked(t, LockMode(op))
          /\ job' = [job EXCEPT ![t] = [op |-> op, key |-> key, val |-> val,
                                        phase |-> "held", snap |-> StoreValue,
                                        tmp |-> <<>>]]
          /\ UNCHANGED last
  /\ UNCHANGED <<lockFile, dataDisk, hintDisk, pc, data_files, active, wpos,
                 keydir, clock, written, touched, compacted, lastView, clones>>

\* the method of worker t returns (or panics) and its guard is dropped
Finish(t, ret, out) ==
  /\ rwlock' = Released(t, ret = "panic")
  /\ job' = [job EXCEPT ![t] = Idle]
  /\ last' = Returned(t, ret, out)

\* store.set under the guard: the size checks and self.write
ArcSetWrite(t) ==
  /\ job[t].op = "set" /\ job[t].phase = "held"
  /\ IF TooLarge(ByteLen(job[t].key), MaxKeySize)
     THEN Finish(t, "KeyIsTooLarge", <<>>) /\ Install(StoreValue)
     ELSE IF TooLarge(ByteLen(job[t].val), MaxValueSize)
     THEN Finish(t, "ValueIsTooLarge", <<>>) /\ Install(StoreValue)
     ELSE LET w == EngineWrite(EngSt(TheStore), job[t].key, job[t].val, clock)
          IN /\ Install([StoreValue EXCEPT !.disk = w.disk, !.table = w.table,
                                           !.active = w.active, !.wpos = w.wpos])
             /\ job' = [job EXCEPT ![t].phase = "half", ![t].tmp = w.entry]
             /\ UNCHANGED <<rwlock, last>>
  /\ UNCHANGED <<lockFile, pc, clock, written, touched, compacted, lastView, clones>>

\* store.set under the guard: self.keydir.put and the return
ArcSetPut(t) ==
  /\ job[t].op = "set" /\ job[t].phase = "half"
  /\ Install([StoreValue EXCEPT !.kd = KeydirPut(keydir[TheStore], job[t].key, job[t].tmp)])
  /\ Finish(t, "ok", <<>>)
  /\ UNCHANGED <<lockFile, pc, clock, written, touched, compacted, lastView, clones>>

\* store.delete under the guard: contains_key and the tombstone
ArcDeleteWrite(t) ==
  /\ job[t].op = "delete" /\ job[t].phase = "held"
  /\ IF ~ContainsKey(TheStore, job[t].key)
     THEN Finish(t, "ok", <<>>) /\ Install(StoreValue)
     ELSE LET w == EngineWrite(EngSt(TheStore), job[t].key, REMOVE_TOMESTONE, clock)
          IN /\ Install([StoreValue EXCEPT !.disk = w.disk, !.table = w.table,
                                           !.active = w.active, !.wpos = w.wpos])
             /\ job' = [job EXCEPT ![t].phase = "half"]
             /\ UNCHANGED <<rwlock, last>>
  /\ UNCHANGED <<lockFile, pc, clock, written, touched, compacted, lastView, clones>>

\* store.delete under the guard: self.keydir.remove and the return
ArcDeleteRemove(t) ==
  /\ job[t].op = "delete" /\ job[t].phase = "half"
  /\ Install([StoreValue EXCEPT !.kd = KeydirRemove(keydir[TheStore], job[t].key)])
  /\ Finish(t, "ok", <<>>)
  /\ UNCHANGED <<lockFile, pc, clock, written, touched, compacted, lastView, clones>>

\* store.compact under the guard, up to keydir.for_each
ArcCompactStart(t) ==
  /\ job[t].op = "compact" /\ job[t].phase = "held"
  /\ \E s \in {CompactStart(EngSt(TheStore), hintDisk)} :
        /\ Install([StoreValue EXCEPT !.disk = s.disk, !.hints = s.hints,
                                      !.table = s.table, !.active = s.active,
                                      !.wpos = s.wpos])
        /\ job' = [job EXCEPT ![t].phase = "half",
                              ![t].tmp = [cid |-> s.cid, limit |-> s.limit]]
  /\ UNCHANGED <<lockFile, pc, clock, written, touched, compacted, lastView,
                 clones, rwlock, last>>

\* store.compact under the guard, from keydir.for_each to the return; a
\* panic in the closure unwinds through the guard
ArcCompactRest(t) ==
  /\ job[t].op = "compact" /\ job[t].phase = "half"
  /\ \E order \in Orders(DOMAIN keydir[TheStore]) :
       \E r \in {CompactRest([disk |-> dataDisk, hints |-> hintDisk,
                               table |-> data_files[TheStore],
                               active |-> active[TheStore], wpos |-> wpos[TheStore],
                               cid |-> job[t].tmp.cid, limit |-> job[t].tmp.limit],
                              keydir[TheStore], order)} :
          /\ Install([disk |-> r.disk, hints |-> r.hints, table |-> r.table,
                      active |-> r.active, wpos |-> r.wpos, kd |-> r.kd])
          /\ Finish(t, IF r.ok THEN "ok" ELSE "panic", <<>>)
  /\ UNCHANGED <<lockFile, pc, clock, written, touched, compacted, lastView, clones>>

\* store.get, store.sync, store.close and store.for_each under the guard
ArcExclusive(t) ==
  /\ job[t].op \in {"get", "sync", "close", "for_each"} /\ job[t].phase = "held"
  /\ \/ /\ job[t].op = "get"
        /\ LET v == EngineGet(TheStore, job[t].key)
           IN Finish(t, IF v = "panic" THEN "panic" ELSE "ok", <<v>>)
     \/ /\ job[t].op \in {"sync", "close"}
        /\ Finish(t, "ok", <<>>)
     \/ /\ job[t].op = "for_each"
        /\ \E order \in Orders(DOMAIN keydir[TheStore]) :
             LET r == ForEachIn(keydir[TheStore], data_files[TheStore], dataDisk,
                                order, job[t].val, <<>>)
             IN Finish(t, r.ret, r.calls)
  /\ UNCHANGED <<lockFile, dataDisk, hintDisk, pc, data_files, active, wpos,
                 keydir, clock, written, touched, compacted, lastView, clones>>

\* DiskStorage::keys, len, is_empty and contains_key on a store value
SharedResult(op, key, s) ==
  CASE op = "keys" -> DOMAIN s.kd
    [] op = "len" -> Cardinality(DOMAIN s.kd)
    [] op = "is_empty" -> Cardinality(DOMAIN s.kd) = 0
    [] op = "contains_key" -> key \in DOMAIN s.kd

\* store.keys, store.len, store.is_empty and store.contains_key under the
\* shared guard
ArcShared(t) ==
  /\ job[t].op \in SharedOps /\ job[t].phase = "held"
  /\ Finish(t, "ok", <<SharedResult(job[t].op, job[t].key, StoreValue)>>)
  /\ UNCHANGED <<lockFile, dataDisk, hintDisk, pc, data_files, active, wpos,
                 keydir, clock, written, touched, compacted, lastView, clones>>

\* workers that share one store through clones of the wrapper
StepArc == steps < MaxArcSteps /\ steps' = steps + 1 /\ UNCHANGED <<atOpen, pool>>

NextArc ==
  \/ \E t \in Workers : StepArc /\ BitCaskOpen(t)
  \/ \E t, u \in Workers : StepArc /\ BitCaskClone(t, u)
  \/ \E t \in Workers : StepArc /\ BitCaskDrop(t)
  \/ \E t \in Workers, k \in Keys, v \in Values : StepArc /\ Acquire(t, "set", k, v)
  \/ \E t \in Workers, kv \in Oversize : StepArc /\ Acquire(t, "set", kv[1], kv[2])
  \/ \E t \in Workers, k \in Keys, op \in {"get", "delete", "contains_key"} :
       StepArc /\ Acquire(t, op, k, None)
  \/ \E t \in Workers, op \in {"compact", "sync", "close", "keys", "len", "is_empty"} :
       StepArc /\ Acquire(t, op, None, None)
  \/ \E t \in Workers, f \in ArcCallbacks : StepArc /\ Acquire(t, "for_each", None, f)
  \/ \E t \in Workers : StepArc /\ ArcSetWrite(t)
  \/ \E t \in Workers : StepArc /\ ArcSetPut(t)
  \/ \E t \in Workers : StepArc /\ ArcDeleteWrite(t)
  \/ \E t \in Workers : StepArc /\ ArcDeleteRemove(t)
  \/ \E t \in Workers : StepArc /\ ArcCompactStart(t)
  \/ \E t \in Workers : StepArc /\ ArcCompactRest(t)
  \/ \E t \in Workers : StepArc /\ ArcExclusive(t)
  \/ \E t \in Workers : StepArc /\ ArcShared(t)

SpecArc == Init /\ [][NextArc]_vars

\* a wrapper method is called by worker t: the worker is now inside the
\* method, in front of inner.write() or inner.read()
ArcCall(t, op, key, val) ==
  /\ t \in clones /\ job[t].phase = "idle"
  /\ job' = [job EXCEPT ![t] = [op |-> op, key |-> key, val |-> val,
                                phase |-> "waiting", snap |-> <<>>, tmp |-> <<>>]]
  /\ UNCHANGED <<lockFile, dataDisk, hintDisk, pc, data_files, active, wpos,
                 keydir, clock, last, written, touched, compacted, lastView,
                 clones, rwlock>>

\* inner.write().unwrap() or inner.read().unwrap() of a worker inside a
\* method: it gets the guard when the lock allows it, and panics out of
\* the method when the lock is poisoned
ArcLock(t) ==
  /\ job[t].phase = "waiting"
  /\ IF rwlock.poisoned
     THEN /\ last' = Returned(t, "panic", <<>>)
          /\ job' = [job EXCEPT ![t] = Idle]
          /\ UNCHANGED rwlock
     ELSE /\ CanLock(LockMode(job[t].op))
          /\ rwlock' = Locked(t, LockMode(job[t].op))
          /\ job' = [job EXCEPT ![t].phase = "held", ![t].snap = StoreValue]
          /\ UNCHANGED last
  /\ UNCHANGED <<lockFile, dataDisk, hintDisk, pc, data_files, active, wpos,
                 keydir, clock, written, touched, compacted, lastView, clones>>

\* the method body of worker t under its guard, up to the return
ArcBody(t) ==
  \/ ArcSetWrite(t) \/ ArcSetPut(t)
  \/ ArcDeleteWrite(t) \/ ArcDeleteRemove(t)
  \/ ArcCompactStart(t) \/ ArcCompactRest(t)
  \/ ArcExclusive(t) \/ ArcShared(t)

CallKeys == {"k1"}

\* at most MaxLiveCalls opens, clones, drops and method calls; a worker
\* that is inside a method is not limited
StepCall == steps < MaxLiveCalls /\ steps' = steps + 1 /\ UNCHANGED <<atOpen, pool>>
StepInside == UNCHANGED <<steps, atOpen, pool>>

NextArcLive ==
  \/ \E t \in Workers : StepCall /\ BitCaskOpen(t)
  \/ \E t, u \in Workers : StepCall /\ BitCaskClone(t, u)
  \/ \E t \in Workers : StepCall /\ BitCaskDrop(t)
  \/ \E t \in Workers, k \in CallKeys : StepCall /\ ArcCall(t, "set", k, "a")
  \/ \E t \in Workers, k \in CallKeys, op \in {"get", "delete", "contains_key"} :
       StepCall /\ ArcCall(t, op, k, None)
  \/ \E t \in Workers, op \in {"compact", "sync", "close", "keys", "len", "is_empty"} :
       StepCall /\ ArcCall(t, op, None, None)
  \/ \E t \in Workers, f \in ArcCallbacks : StepCall /\ ArcCall(t, "for_each", None, f)
  \/ \E t \in Workers : StepInside /\ ArcLock(t)
  \/ \E t \in Workers : StepInside /\ ArcBody(t)

\* fair lock scheduling: a worker for which the lock is free again and
\* again gets it; a worker that holds the guard keeps running
ArcFair ==
  \A t \in Workers :
    /\ SF_vars(StepInside /\ ArcLock(t))
    /\ WF_vars(StepInside /\ ArcBody(t))

SpecArcLive == Init /\ [][NextArcLive]_vars /\ ArcFair

\* ------------------------------------------------------------ threadpool.rs
\* what a job does when a worker calls it
JobBodies == {"returns", "panics"}

\* the Receiver lives in an Arc that every worker closure holds a clone of:
\* it is dropped when the last worker thread has ended
ReceiverAlive == \E w \in PoolIds : pool.at[w] \notin {"exited", "panicked"}

\* mpsc::Receiver::recv takes the first message out of the channel
AfterRecv(queue) == Tail(queue)

PoolOnly ==
  UNCHANGED <<lockFile, dataDisk, hintDisk, pc, data_files, active, wpos,
              keydir, clock, last, written, touched, compacted, lastView,
              steps, rwlock, job, clones, atOpen>>

\* ThreadPool::execute: sender.send(Message::NewJob(job)).unwrap(); send
\* fails when the receiver is gone
Execute(b) ==
  /\ pool.owner = "alive" /\ Len(pool.body) < MaxJobs
  /\ pool' = IF ReceiverAlive
             THEN [pool EXCEPT !.queue = Append(@, NewJob(Len(pool.body) + 1)),
                               !.body = Append(@, b),
                               !.ran = Append(@, <<>>)]
             ELSE [pool EXCEPT !.owner = "panicked", !.sender = FALSE]
  /\ PoolOnly

\* Worker::new, receiver.lock().unwrap(): the worker waits for the mutex;
\* on a poisoned mutex unwrap panics
WorkerLock(w) ==
  /\ pool.at[w] = "lock" /\ pool.holder = {}
  /\ pool' = IF pool.poisoned
             THEN [pool EXCEPT !.at[w] = "panicked"]
             ELSE [pool EXCEPT !.at[w] = "recv", !.holder = {w}]
  /\ PoolOnly

\* Worker::new, .recv().unwrap() and the match: the worker blocks, with
\* the mutex held, until there is a message or every sender is gone; the
\* guard is dropped at the end of the statement.  A Terminate ends the
\* loop; an Err of recv makes unwrap panic under the guard.
WorkerRecv(w) ==
  /\ pool.at[w] = "recv"
  /\ IF pool.queue # <<>>
     THEN LET message == Head(pool.queue)
          IN pool' = [pool EXCEPT
                        !.queue = AfterRecv(@),
                        !.holder = {},
                        !.at[w] = IF message.kind = "Terminate" THEN "exited" ELSE "run",
                        !.cur[w] = message.job,
                        !.took[w] = IF message.kind = "Terminate" THEN @ + 1 ELSE @]
     ELSE /\ ~pool.sender
          /\ pool' = [pool EXCEPT !.holder = {}, !.poisoned = TRUE,
                                   !.at[w] = "panicked"]
  /\ PoolOnly

\* Worker::new, job(): the worker runs the job it received; a panic of
\* the job ends the thread
WorkerRun(w) ==
  /\ pool.at[w] = "run"
  /\ pool' = [pool EXCEPT
                !.ran[pool.cur[w]] = Append(@, w),
                !.cur[w] = 0,
                !.at[w] = IF pool.body[pool.cur[w]] = "returns" THEN "lock"
                          ELSE "panicked"]
  /\ PoolOnly

\* the pool goes out of scope: impl Drop for ThreadPool is entered
DropStart ==
  /\ pool.owner = "alive"
  /\ pool' = [pool EXCEPT !.owner = "sending"]
  /\ PoolOnly

\* impl Drop, first loop: one send(Message::Terminate).unwrap() for each
\* worker
DropSend ==
  /\ pool.owner = "sending" /\ pool.sent < PoolSize
  /\ pool' = IF ReceiverAlive
             THEN [pool EXCEPT !.queue = Append(@, Terminate), !.sent = @ + 1]
             ELSE [pool EXCEPT !.owner = "panicked", !.sender = FALSE]
  /\ PoolOnly

\* impl Drop: drop(self.sender.take())
DropSender ==
  /\ pool.owner = "sending" /\ pool.sent = PoolSize
  /\ pool' = [pool EXCEPT !.sender = FALSE, !.owner = "joining"]
  /\ PoolOnly

\* impl Drop, second loop: thread.join().unwrap() for the workers in the
\* order of the vector; join gives Err for a thread that panicked
DropJoin ==
  /\ pool.owner = "joining"
  /\ pool.at[pool.joined] \in {"exited", "panicked"}
  /\ pool' = IF pool.at[pool.joined] = "panicked"
             THEN [pool EXCEPT !.owner = "panicked"]
             ELSE [pool EXCEPT !.joined = @ + 1,
                               !.owner = IF pool.joined + 1 = PoolSize
                                         THEN "returned" ELSE "joining"]
  /\ PoolOnly

WorkerStep(w) == WorkerLock(w) \/ WorkerRecv(w) \/ WorkerRun(w)

NextPool ==
  \/ \E b \in JobBodies : Execute(b)
  \/ \E w \in PoolIds : WorkerLock(w)
  \/ \E w \in PoolIds : WorkerRecv(w)
  \/ \E w \in PoolIds : WorkerRun(w)
  \/ DropStart
  \/ DropSend
  \/ DropSender
  \/ DropJoin

SpecPool == Init /\ [][NextPool]_vars

\* every spawned thread and the thread inside drop keep running
PoolFair ==
  /\ \A w \in PoolIds : WF_vars(WorkerStep(w))
  /\ WF_vars(DropSend \/ DropSender \/ DropJoin)

SpecPoolLive == SpecPool /\ PoolFair

\* ------------------------------------------------------------ claims
Holders == {e \in Engines : pc[e] \in {"locked", "open"}}
Tombstones(key) ==
  {id \in DOMAIN dataDisk : \E i \in 1..Len(dataDisk[id]) :
     dataDisk[id][i].rec.key = key /\ dataDisk[id][i].rec.value = REMOVE_TOMESTONE}

\* C1: a key set in this session and neither set nor deleted since reads
\* back as the value set, whatever else happened in between.
C1_RoundTrip ==
  \A e \in Engines : pc[e] = "open" =>
    \A k \in touched : written[k] # None => EngineGet(e, k) = written[k]

\* C2: right after any successful set(k, v), whatever sets came before and
\* whatever the clock stamped on them, get(k) is v.
C2_LastWriterWins ==
  (last.op = "set" /\ last.ret = "ok") => EngineGet(last.eng, last.key) = last.val

\* C3: a key deleted in this session (and not set since) is absent for get
\* and contains_key, every delete succeeds, and a delete(k) that follows a
\* delete(k) changes neither the directory nor the engine.
C3_Deleted ==
  /\ \A e \in Engines : pc[e] = "open" =>
       \A k \in touched : written[k] = None =>
         (~ContainsKey(e, k) /\ EngineGet(e, k) = None)
  /\ last.op = "delete" => last.ret = "ok"

C3_SecondDelete ==
  (steps' # steps /\ last'.op = "delete" /\ last'.again) =>
    UNCHANGED <<lockFile, dataDisk, hintDisk, pc, data_files, active, wpos, keydir>>

C3_DeleteIdempotent == []C3_Deleted /\ [][C3_SecondDelete]_vars

C3_Witness ==
  /\ last.op = "delete" /\ last.again
  /\ Tombstones(last.key) # {}
  /\ last.key \in touched /\ written[last.key] = None

\* C4: an open that succeeds yields for every key the get result the
\* directory's previous engine gave last.
C4_PersistAcrossReopen ==
  [][(steps' # steps /\ last'.op = "open" /\ last'.ret = "ok") => lastView' = lastView]_vars

\* C5: an open attempted while another engine holds the directory fails
\* with AlreadyLocked and leaves the LOCK file, the segment files and the
\* holder's state as they were.
C5_Attempt(e) ==
  /\ steps' # steps
  /\ pc[e] = "closed"
  /\ last'.eng = e
  /\ last'.op \in {"open", "lock"}

C5_LockExclusion ==
  [][\A e \in Engines :
       (C5_Attempt(e) /\ Holders # {}) =>
         /\ last'.ret = "AlreadyLocked"
         /\ UNCHANGED <<lockFile, dataDisk, hintDisk, pc, data_files, active,
                        wpos, keydir>>]_vars

C5_Witness ==
  /\ last.op = "open" /\ last.ret = "AlreadyLocked"
  /\ \E f \in Engines : f # last.eng /\ pc[f] = "open" /\ DOMAIN keydir[f] # {}

\* C6: at most one opener ever holds the directory, and the LOCK file
\* exists while it does.
C6_AtMostOneHolder ==
  /\ Cardinality(Holders) <= 1
  /\ Holders # {} => lockFile

C6_Witness ==
  \E e, f \in Engines :
    /\ e # f /\ pc[e] = "locked" /\ pc[f] = "closed"
    /\ last.eng = f /\ last.ret = "AlreadyLocked"

\* C7: with no compaction, a record is appended to a segment only while
\* the segment is no larger than max_log_file_size (more data goes to
\* additional segments), segment 1 exists once something was written, and
\* get returns the last value written for every live key, in the writing
\* engine and after a reopen.
C7_Rotation ==
  ~compacted =>
    /\ \A id \in DOMAIN dataDisk : dataDisk[id] # <<>> =>
         /\ FileSize(SubSeq(dataDisk[id], 1, Len(dataDisk[id]) - 1)) <= MaxLogFileSize
         /\ 1 \in DOMAIN dataDisk
    /\ \A e \in Engines : pc[e] = "open" =>
         \A k \in Keys : written[k] # None => EngineGet(e, k) = written[k]

\* C8: a compact that succeeds leaves the get result of every key as it
\* was before the call.
C8_CompactionPreserves ==
  [][(steps' # steps /\ last'.op = "compact" /\ last'.ret = "ok") => lastView' = lastView]_vars

\* C9: after a successful compact no data or hint file and no segment
\* table entry has an id <= F (last.lo), and the files left are the data
\* file of the new active segment F+1 and the data and hint files of the
\* outputs F+2 .. last.hi of this compaction.
C9_CompactionRemoval ==
  (last.op = "compact" /\ last.ret = "ok") =>
    /\ \A id \in DOMAIN dataDisk \cup DOMAIN hintDisk \cup data_files[last.eng] :
         id > last.lo
    /\ DOMAIN dataDisk \subseteq (last.lo + 1)..last.hi
    /\ DOMAIN hintDisk \subseteq (last.lo + 2)..last.hi

\* the live key set an open of the directory yields
ReplayKeys(disk, hints) ==
  IF \A id \in Replayed(disk, hints) : WellFramed(disk[id])
  THEN DOMAIN BuildKeydir(EmptyMap, DOMAIN disk, disk, hints)
  ELSE {"panic"}

\* C10: for every segment that has a data file and a hint file, opening
\* the directory yields the same live key set with the hint file as
\* without it.
C10_HintReplay ==
  \A id \in DOMAIN hintDisk \cap DOMAIN dataDisk :
    ReplayKeys(dataDisk, hintDisk) = ReplayKeys(dataDisk, RemoveFile(hintDisk, id))

\* C11: every key directory entry of an open engine names a segment of
\* the segment table, and the record at (file_id, offset) of that segment
\* has the entry's key, a value other than the tombstone and the entry's
\* size; so get never takes the 'data file not found' path.
C11_IndexConsistent ==
  \A e \in Engines : pc[e] = "open" =>
    \A k \in DOMAIN keydir[e] :
      LET en == keydir[e][k]
          rec == DataFileRead(Content(dataDisk, en.file_id), en.offset)
      IN /\ en.file_id \in data_files[e]
         /\ rec.key = k
         /\ rec.value # REMOVE_TOMESTONE
         /\ EntrySize(rec) = en.size
         /\ EngineGet(e, k) # "panic"

\* C12: whenever an engine is open and between two calls, its active
\* segment has the largest id of the directory and of its segment table.
C12_ActiveIsLargest ==
  \A e \in Engines : pc[e] = "open" =>
    /\ \A id \in DOMAIN dataDisk \cup DOMAIN hintDisk : id <= active[e]
    /\ \A id \in data_files[e] : id <= active[e]

\* the live keys of engine e and what for_each called f with
LiveKeys(e) == DOMAIN keydir[e]
Called == {last.out[i] : i \in 1..Len(last.out)}

\* C13: for_each with a callback that always answers Ok(true) (go on) calls
\* it exactly once for every live key, with the key and its current value,
\* and with nothing else.
C13_ForEachVisitsAll ==
  (last.op = "for_each" /\ \A k \in Keys : last.arg[k] = "true") =>
    /\ Len(last.out) = Cardinality(LiveKeys(last.eng))
    /\ Called = {[key |-> k, value |-> EngineGet(last.eng, k)] : k \in LiveKeys(last.eng)}
    /\ last.ret = "ok"

\* C14: for_each goes on after every Ok(true), stops after the first
\* Ok(false) or Err, and returns the error exactly when the callback failed.
C14_ForEachProtocol ==
  last.op = "for_each" =>
    LET n == Len(last.out)
        ans(i) == last.arg[last.out[i].key]
    IN /\ \A i \in 1..(n - 1) : ans(i) = "true"
       /\ n < Cardinality(LiveKeys(last.eng)) => (n > 0 /\ ans(n) \in {"false", "err"})
       /\ last.ret = (IF n > 0 /\ ans(n) = "err" THEN "err" ELSE "ok")

\* C15: a set whose key is longer than max_key_size fails with
\* KeyIsTooLarge, one whose value is longer than max_value_size fails with
\* ValueIsTooLarge, and neither appends a record, rotates the active
\* segment or changes the key directory.
C15_Oversize(key, value) ==
  LET kbig == ByteLen(key) > MaxKeySize
      vbig == ByteLen(value) > MaxValueSize
  IN (kbig \/ vbig) =>
       /\ kbig /\ ~vbig => last'.ret = "KeyIsTooLarge"
       /\ vbig /\ ~kbig => last'.ret = "ValueIsTooLarge"
       /\ last'.ret \in {"KeyIsTooLarge", "ValueIsTooLarge"}
       /\ UNCHANGED <<lockFile, dataDisk, hintDisk, pc, data_files, active, wpos, keydir>>

C15_SizeLimits ==
  [][(steps' # steps /\ last'.op = "set") => C15_Oversize(last'.key, last'.val)]_vars

C15_Witness ==
  /\ last.op = "set" /\ last.ret = "ValueIsTooLarge"
  /\ FileSize(Content(dataDisk, active[last.eng])) > MaxLogFileSize
  /\ last.key \in DOMAIN keydir[last.eng]

\* C16: while get, set, delete, compact, close, sync or for_each executes
\* on the shared store no other wrapper operation executes on it; keys,
\* len, is_empty and contains_key execute only next to each other.
Executing(t) == job[t].phase # "idle"

C16_Discipline ==
  \A t \in Workers : (Executing(t) /\ job[t].op \in ExclusiveOps) =>
    \A u \in Workers \ {t} : ~Executing(u)

C16_Witness ==
  /\ \A t \in Workers : Executing(t) /\ job[t].op \in SharedOps
  /\ last.op \in ExclusiveOps /\ last.ret = "ok"
  /\ keydir[TheStore] # EmptyMap

\* what an operation does to a store value s when nothing else runs: the
\* store after it, what it returns and what else it hands back
SeqOutcomes(op, key, val, s, now) ==
  LET st == [disk |-> s.disk, table |-> s.table, active |-> s.active, wpos |-> s.wpos]
      same(ret, out) == {[st |-> s, ret |-> ret, out |-> out]}
      wrote(w, kd) == {[st |-> [s EXCEPT !.disk = w.disk, !.table = w.table,
                                         !.active = w.active, !.wpos = w.wpos,
                                         !.kd = kd],
                        ret |-> "ok", out |-> <<>>]}
  IN CASE op = "set" ->
            IF ByteLen(key) > MaxKeySize THEN same("KeyIsTooLarge", <<>>)
            ELSE IF ByteLen(val) > MaxValueSize THEN same("ValueIsTooLarge", <<>>)
            ELSE LET w == EngineWrite(st, key, val, now)
                 IN wrote(w, KeydirPut(s.kd, key, w.entry))
       [] op = "delete" ->
            IF key \notin DOMAIN s.kd THEN same("ok", <<>>)
            ELSE wrote(EngineWrite(st, key, REMOVE_TOMESTONE, now), KeydirRemove(s.kd, key))
       [] op = "compact" ->
            {LET r == CompactIn(st, s.kd, s.hints, order)
             IN [st |-> [disk |-> r.disk, hints |-> r.hints, table |-> r.table,
                         active |-> r.active, wpos |-> r.wpos, kd |-> r.kd],
                 ret |-> IF r.ok THEN "ok" ELSE "panic", out |-> <<>>]
             : order \in Orders(DOMAIN s.kd)}
       [] op = "get" ->
            LET v == GetIn(s.kd, s.table, s.disk, key)
            IN same(IF v = "panic" THEN "panic" ELSE "ok", <<v>>)
       [] op = "for_each" ->
            {LET r == ForEachIn(s.kd, s.table, s.disk, order, val, <<>>)
             IN [st |-> s, ret |-> r.ret, out |-> r.calls]
             : order \in Orders(DOMAIN s.kd)}
       [] op \in {"sync", "close"} -> same("ok", <<>>)
       [] op \in SharedOps -> same("ok", <<SharedResult(op, key, s)>>)

\* C17: the clones act on one store and every operation is atomic: an
\* operation that returns leaves the store and hands back the result that
\* the same operation, run alone, gives on the store as the operation
\* found it; and the store it finds is never one that another operation
\* has half changed.
C17_Returns(t) ==
  (Executing(t) /\ job'[t].phase = "idle") =>
    [st |-> StoreValue', ret |-> last'.ret, out |-> last'.out]
      \in SeqOutcomes(job[t].op, job[t].key, job[t].val, job[t].snap, clock)

C17_Finds ==
  \A t \in Workers : job[t].phase = "held" =>
    /\ StoreValue = job[t].snap
    /\ \A u \in Workers \ {t} : job[u].phase # "half"

C17_Atomic == []C17_Finds /\ [][\A t \in Workers : C17_Returns(t)]_vars

C17_Witness ==
  \E t \in Workers :
    /\ last.op = "set" /\ last.ret = "ok" /\ last.arg # t
    /\ job[t].op = "get" /\ job[t].phase = "held" /\ job[t].key = last.key
    /\ EngineGet(TheStore, last.key) = last.val
    /\ Cardinality(DOMAIN keydir[TheStore]) > 1

\* C18: the LOCK file exists as long as an engine is open, whatever set,
\* delete, rotation, compact, sync or close it has gone through; the drop
\* of the engine deletes it, and the open that follows is not refused.
C18_Held == \A e \in Engines : pc[e] = "open" => lockFile

C18_Dropped ==
  /\ (steps' # steps /\ last'.op = "drop") => ~lockFile'
  /\ (last.op = "drop" /\ last'.op = "open") => (last'.ret = "ok" /\ lockFile')

C18_LockLifetime == []C18_Held /\ [][C18_Dropped]_vars

C18_Witness ==
  /\ last.op = "open" /\ last.ret = "ok" /\ lockFile
  /\ compacted /\ DOMAIN keydir[last.eng] # {}
  /\ Cardinality(DOMAIN dataDisk) > 2

\* C19: put(key, e) inserts e when the key has no entry; when an entry s
\* exists it replaces s with e if e.timestamp >= s.timestamp and leaves s
\* otherwise; the entry returned is the one stored for the key after the
\* call; no other key's entry changes.
C19_Put(key, e, old, new, returned) ==
  /\ key \in DOMAIN new
  /\ key \notin DOMAIN old => new[key] = e
  /\ key \in DOMAIN old =>
       /\ e.timestamp >= old[key].timestamp => new[key] = e
       /\ e.timestamp < old[key].timestamp => new[key] = old[key]
  /\ returned = <<new[key]>>
  /\ DOMAIN new = DOMAIN old \cup {key}
  /\ \A k \in DOMAIN old \ {key} : new[k] = old[k]

C19_PutRule ==
  [][(steps' # steps /\ last'.op = "put") =>
       C19_Put(last'.key, last'.arg, keydir[TheMap], keydir'[TheMap], last'.out)]_vars

C19_Witness ==
  /\ last.op = "put"
  /\ last.out # <<last.arg>>
  /\ last.out[1].timestamp > last.arg.timestamp
  /\ Cardinality(DOMAIN keydir[TheMap]) > 1

\* C20: during open, when a key has a hint-derived entry (timestamp 0) and
\* a record for the same key is replayed afterwards from a data file, the
\* entry derived from that record takes the place of the hint-derived one
\* (a tombstone removes it), and when nothing for the key is replayed
\* later still, the key directory after open points at that record.
ReplayUpTo(d, i) ==
  BuildFromData(BuildKeydir(EmptyMap, {x \in DOMAIN dataDisk : x < d}, dataDisk, hintDisk),
                d, SubSeq(dataDisk[d], 1, i - 1), 1)

ReplayAll == BuildKeydir(EmptyMap, DOMAIN dataDisk, dataDisk, hintDisk)

DataDerived(d, i) ==
  KeydirEntry(d, ChunkOffset(dataDisk[d], i), EntrySize(dataDisk[d][i].rec),
              dataDisk[d][i].rec.ts)

HintBeforeData(d, i) ==
  LET key == dataDisk[d][i].rec.key
  IN key \in DOMAIN ReplayUpTo(d, i) /\ ReplayUpTo(d, i)[key].timestamp = 0

ReplayedLater(d, i) ==
  LET key == dataDisk[d][i].rec.key
  IN \/ \E j \in (i + 1)..Len(dataDisk[d]) : dataDisk[d][j].rec.key = key
     \/ \E x \in DOMAIN dataDisk :
          /\ x > d
          /\ IF x \in DOMAIN hintDisk
             THEN \E j \in 1..Len(hintDisk[x]) : hintDisk[x][j].key = key
             ELSE \E j \in 1..Len(dataDisk[x]) : dataDisk[x][j].rec.key = key

C20_DataOverHint ==
  (\A id \in Replayed(dataDisk, hintDisk) : WellFramed(dataDisk[id])) =>
    \A d \in Replayed(dataDisk, hintDisk) : \A i \in 1..Len(dataDisk[d]) :
      HintBeforeData(d, i) =>
        LET rec == dataDisk[d][i].rec
            after == ReplayUpTo(d, i + 1)
        IN IF rec.value = REMOVE_TOMESTONE
           THEN /\ rec.key \notin DOMAIN after
                /\ ~ReplayedLater(d, i) => rec.key \notin DOMAIN ReplayAll
           ELSE /\ rec.key \in DOMAIN after /\ after[rec.key] = DataDerived(d, i)
                /\ ~ReplayedLater(d, i) =>
                     (rec.key \in DOMAIN ReplayAll /\ ReplayAll[rec.key] = DataDerived(d, i))

C20_Witness ==
  /\ last.op = "open" /\ last.ret = "ok"
  /\ \E d \in Replayed(dataDisk, hintDisk) : \E i \in 1..Len(dataDisk[d]) :
       /\ HintBeforeData(d, i) /\ ~ReplayedLater(d, i)
       /\ dataDisk[d][i].rec.value # REMOVE_TOMESTONE
       /\ keydir[last.eng][dataDisk[d][i].rec.key] = DataDerived(d, i)

\* C21: when a compact is cut short after the rotation, after the copy of
\* any prefix of the live records or after the removal of any prefix of
\* the old segments, the next open of the directory succeeds and yields for every
\* key the get result the engine gave right before compact was called.
C21_AbortReconciled ==
  [][(steps' # steps /\ last.op = "abort" /\ last'.op = "open") =>
       (last'.ret = "ok" /\ lastView' = lastView)]_vars

\* C22: for all 32-bit crc, timestamp, key_sz and value_sz, the header
\* built from them is 16 bytes long and decodes to the same four values.
C22_HeaderRoundTrip ==
  last.op = "header" =>
    /\ last.out[1] = HEADER_SIZE
    /\ SubSeq(last.out, 2, 5) = last.arg

C22_Witness ==
  /\ last.op = "header"
  /\ last.arg[1] = <<65535, 65535>> /\ last.arg[2] = <<258, 65535>>
  /\ last.arg[3] = <<0, 258>> /\ last.arg[4] = <<0, 0>>
  /\ last.out[3] = <<258, 65535>>

\* C23: every write of a data record returns as offset the position at
\* which the first byte of the record was placed, the tail of the file
\* before the write, so that reading the segment at that offset gives a
\* record with the key and the value just written.
C23_LocatorRoundTrip ==
  (last.op \in {"set", "delete"} /\ last.ret = "ok" /\ last.out # <<>>) =>
    LET f == Content(dataDisk, last.out[1])
        rec == DataFileRead(f, last.out[2])
    IN /\ rec.key = last.key
       /\ rec.value = (IF last.op = "set" THEN last.val ELSE REMOVE_TOMESTONE)
       /\ last.out[2] + EntrySize(rec) = FileSize(f)

C24_Entry(e, k) ==
  LET old == keydir[e][k]
      new == keydir'[e][k]
  IN /\ new.file_id \in (last'.lo + 1)..last'.hi
     /\ new.file_id = active'[e] \/ new.file_id \notin DOMAIN dataDisk
     /\ new.file_id \in DOMAIN dataDisk'
     /\ new.size = old.size
     /\ new.timestamp = old.timestamp

\* C24: right after a successful compact every key directory entry names
\* a segment created by that compaction or the new active segment, none
\* names a segment with id <= F (last.lo), and every entry has the size
\* and the timestamp it had before the compaction.
C24_EntriesMoved ==
  [][(last' # last /\ last'.op = "compact" /\ last'.ret = "ok") =>
       /\ DOMAIN keydir'[last'.eng] = DOMAIN keydir[last'.eng]
       /\ \A k \in DOMAIN keydir[last'.eng] : C24_Entry(last'.eng, k)]_vars

\* the keys whose record a compaction copied into segment S
C25_CopiedInto(kd, S) == {k \in DOMAIN kd : kd[k].file_id = S}

C25_HintOf(kd, data, hints, S) ==
  LET ks == C25_CopiedInto(kd, S)
      hs == Content(hints, S)
  IN /\ Len(hs) = Cardinality(ks)
     /\ \A i \in 1..Len(hs) : hs[i].key \in ks
     /\ \A k \in ks :
          \E i \in 1..Len(hs) :
            /\ hs[i].key = k
            /\ hs[i].offset = kd[k].offset
            /\ HintEntrySize(hs[i]) = kd[k].size
            /\ LET rec == DataFileRead(Content(data, S), hs[i].offset)
               IN rec.key = k /\ EntrySize(rec) = HintEntrySize(hs[i])

\* C25: after a successful compact, for every output data segment S the
\* hint segment S holds exactly one hint record for each key whose record
\* was copied into S and for no other key, and each hint record's offset
\* and derived size are the offset and size of that key's record in data
\* segment S and those of the key directory entry.
C25_HintsMatch ==
  (last.op = "compact" /\ last.ret = "ok") =>
    \A S \in (last.lo + 2)..last.hi :
      C25_HintOf(keydir[last.eng], dataDisk, hintDisk, S)

\* the segment ids a step opens for appending: a new active segment, and
\* the outputs of a compaction
C26_Allocated(e) ==
  (IF active'[e] # active[e] /\ active'[e] # 0 THEN {active'[e]} ELSE {})
  \cup (IF last' # last /\ last'.op = "compact" /\ last'.eng = e
        THEN (last'.lo + 2)..last'.hi ELSE {})

\* C26: every segment allocated by open, by the rotation in set and delete
\* or by compact (the new active segment and every output) gets an id
\* that no data file and no hint file of the directory has yet.
C26_FreshIds ==
  [][\A e \in Engines :
       C26_Allocated(e) \cap (DOMAIN dataDisk \cup DOMAIN hintDisk) = {}]_vars

\* a step in which set or delete appended a record
C27_Wrote == dataDisk' # dataDisk /\ last'.op \in {"set", "delete"} /\ last'.ret = "ok"

\* C27: when a set, or a delete of a present key, finds the active segment
\* larger than max_log_file_size, the new active segment's id is the
\* current active id + 1 and the record goes there; otherwise the record
\* goes to the current active segment and no segment is created.
C27_Rotation ==
  [][C27_Wrote =>
       LET e == last'.eng
       IN IF FileSize(Content(dataDisk, active[e])) > MaxLogFileSize
          THEN /\ active'[e] = active[e] + 1
               /\ last'.out[1] = active'[e]
          ELSE /\ active'[e] = active[e]
               /\ last'.out[1] = active[e]
               /\ DOMAIN dataDisk' = DOMAIN dataDisk]_vars

\* C28: opening the directory and dropping the engine without a successful
\* write in between leaves exactly the data and hint files, with their
\* contents, that the directory had before the open.
C28_OpenDropLeavesFiles ==
  (last.op = "drop" /\ atOpen.quiet) =>
    /\ dataDisk = atOpen.data
    /\ hintDisk = atOpen.hints

\* a directory with data and hint segments was opened and dropped
C28_Witness ==
  /\ last.op = "drop" /\ atOpen.quiet
  /\ DOMAIN atOpen.data # {}
  /\ DOMAIN atOpen.hints # {}

\* the step appended to data segment id one whole record (key, value)
C29_AppendedTo(id, key, value) ==
  /\ id \in DOMAIN dataDisk'
  /\ LET old == Content(dataDisk, id)
         new == dataDisk'[id]
     IN /\ Len(new) = Len(old) + 1
        /\ SubSeq(new, 1, Len(old)) = old
        /\ new[Len(new)].rec.key = key
        /\ new[Len(new)].rec.value = value
        /\ new[Len(new)].valid = EntrySize(new[Len(new)].rec)
        /\ new[Len(new)].len = EntrySize(new[Len(new)].rec)

C29_Absent(e) ==
  /\ last'.ret = "ok"
  /\ dataDisk' = dataDisk /\ hintDisk' = hintDisk
  /\ active'[e] = active[e] /\ data_files'[e] = data_files[e]
  /\ keydir'[e] = keydir[e]

C29_Present(e, k) ==
  /\ last'.ret = "ok"
  /\ hintDisk' = hintDisk
  /\ \E id \in DOMAIN dataDisk' :
       /\ C29_AppendedTo(id, k, REMOVE_TOMESTONE)
       /\ DOMAIN dataDisk \subseteq DOMAIN dataDisk'
       /\ \A other \in DOMAIN dataDisk' \ {id} :
            dataDisk'[other] = Content(dataDisk, other)
  /\ DOMAIN keydir'[e] = DOMAIN keydir[e] \ {k}
  /\ \A j \in DOMAIN keydir'[e] : keydir'[e][j] = keydir[e][j]

\* C29: delete(k) of an absent key succeeds and changes nothing: no record
\* is appended, no segment is created and the key directory is as before;
\* delete(k) of a present key appends exactly one record, whose value is
\* REMOVE_TOMESTONE, and removes k and only k from the key directory.
C29_DeleteEffect ==
  [][\A e \in Opener, k \in Keys :
       Delete(e, k) =>
         IF k \in DOMAIN keydir[e] THEN C29_Present(e, k) ELSE C29_Absent(e)]_vars

\* a present key was deleted while another key stayed
C29_Witness ==
  /\ last.op = "delete" /\ last.ret = "ok" /\ last.out # <<>>
  /\ last.key \notin DOMAIN keydir[last.eng]
  /\ DOMAIN keydir[last.eng] # {}

\* C30: reading a data record at an offset where fewer than 16 bytes are
\* left (0 to 15) returns "no more records", so the replay of such a
\* segment ends at the last whole record: it yields the whole records and
\* nothing for the bytes of the tail.
C30_ShortTailEndsReplay ==
  (last.op = "replay" /\ last.hi - last.lo < HEADER_SIZE) =>
    /\ last.key = "None"
    /\ last.ret = "ok"
    /\ last.out = last.arg

\* C31: a record whose 16-byte header is whole and whose key or value
\* bytes are cut short is reported to the caller as DeserializeError, by
\* the read and by the replay, and the replay yields the whole records
\* only.
C31_CutRecordIsDeserializeError ==
  (last.op = "replay" /\ last.hi - last.lo >= HEADER_SIZE) =>
    /\ last.key = "DeserializeError"
    /\ last.ret = "DeserializeError"
    /\ last.out = last.arg

\* the LOCK file is there and no engine holds it
C32_Stale == lockFile /\ \A e \in Engines : pc[e] = "closed"

C33_Records(disk, ids) ==
  UNION {{<<id, i>> : i \in 1..Len(disk[id])} : id \in ids \cap DOMAIN disk}

RECURSIVE C33_Sum(_, _)
C33_Sum(f, S) ==
  IF S = {} THEN 0
  ELSE LET x == CHOOSE y \in S : TRUE IN f[x] + C33_Sum(f, S \ {x})

C33_Outputs(e) ==
  LET ids == (last'.lo + 2)..last'.hi
      recs == C33_Records(dataDisk', ids)
      live == keydir[e]
  IN /\ Cardinality(recs) = Cardinality(DOMAIN live)
     /\ \A k \in DOMAIN live :
          \E p \in recs :
            LET c == dataDisk'[p[1]][p[2]]
            IN /\ c.rec = ReadFrom(Content(dataDisk, live[k].file_id), live[k].offset)
               /\ c.rec.key = k
               /\ c.valid = c.len /\ c.len = EntrySize(c.rec)
     /\ \A p \in recs : dataDisk'[p[1]][p[2]].rec.value # REMOVE_TOMESTONE
     /\ C33_Sum([id \in ids \cap DOMAIN dataDisk' |-> FileSize(dataDisk'[id])],
                ids \cap DOMAIN dataDisk')
          = C33_Sum([k \in DOMAIN live |-> live[k].size], DOMAIN live)

\* C33: after a successful compact the output segments together hold
\* exactly one record for each key that was live when the compaction
\* started, the byte-identical copy of the record its key directory entry
\* named, no tombstone and no superseded record, and their total size is
\* the sum of the live entries' sizes.
C33_DenseOutputs ==
  [][\A e \in Opener :
       (Compact(e) /\ last'.ret = "ok") => C33_Outputs(e)]_vars

\* get(k) of engine e returns Ok(Some(value))
C34_GetsValue(e, k) == EngineGet(e, k) \notin {None, "panic"}

C35_HoldsInside(t) ==
  (rwlock.writer = t \/ t \in rwlock.readers) <=> job[t].phase \in {"held", "half"}

\* C35: every wrapper method takes the lock once and gives it back before
\* it returns, so under fair lock scheduling every method call that a
\* worker has started ends.
C35_CallsEnd ==
  /\ [](\A t \in Workers : C35_HoldsInside(t))
  /\ \A t \in Workers : (job[t].phase # "idle") ~> (job[t].phase = "idle")

\* both workers are inside a method, one with the guard and one waiting
C35_Witness ==
  \E t, u \in Workers :
    /\ job[t].phase \in {"held", "half"} /\ job[t].op \in ExclusiveOps
    /\ job[u].phase = "waiting"

\* job j was handed to execute and has been run once
C36_RanOnce(j) == Len(pool.ran) >= j /\ Len(pool.ran[j]) = 1

\* C36: every job handed to execute is run exactly once, by one worker;
\* when the drop of the pool has returned, every job handed over before it
\* has been run and every worker has taken exactly one Terminate and has
\* exited; every job handed over is run at some time and a drop that has
\* started returns.
C36_HandOffAndShutdown ==
  /\ [](\A j \in 1..Len(pool.ran) : Len(pool.ran[j]) <= 1)
  /\ [](\A w \in PoolIds : pool.took[w] <= 1)
  /\ [](pool.owner = "returned" =>
          /\ \A j \in 1..Len(pool.body) : C36_RanOnce(j)
          /\ \A w \in PoolIds : pool.at[w] = "exited" /\ pool.took[w] = 1)
  /\ \A j \in 1..MaxJobs : (Len(pool.body) >= j) ~> C36_RanOnce(j)
  /\ (pool.owner = "sending") ~> (pool.owner = "returned")

====
